---- MODULE Spec2Model ----
(***************************************************************************)
(* A model of the I3S node hierarchy of Source/Scene/I3SNode.js: node      *)
(* construction and load(), child materialization (_loadChildren), and     *)
(* the content request protocol hooked into Cesium3DTile.requestContent,   *)
(* the tile definition (_create3DTileDefinition) and sampleGeoid; and of   *)
(* the provider the tests of Specs/Scene/I3SDataProviderSpec.js drive.     *)
(*                                                                         *)
(* JavaScript runs every callback to completion, so one action is one      *)
(* call or one promise continuation.  Values that are undefined in the     *)
(* source are 0 (ids), <<>> (resources) or a record with defined = FALSE.  *)
(***************************************************************************)
EXTENDS Integers, Sequences, FiniteSets, TLC

\* Bounds of the model.
MaxNodes == 3
MaxCalls == 2
MaxRequests == 4
MaxLayers == 2
MaxUpdates == 1
MaxDestroys == 2
MaxFetches == 2
MaxLod == 2
MaxGrid == 3
MaxShows == 2
MaxExtents == 3

VARIABLES
  mode,       \* "legacy" (nodes fetched as JSON by href) or "paged" (node pages)
  nodes,      \* the I3SNode objects, in construction order; nodes[1] is the root
  loadP,      \* per node: the promise returned by load()
  fetches,    \* per node: the metadata requests issued for it and their outcome
  tiles,      \* the Cesium3DTile objects constructed, in construction order
  promises,   \* the promises created by _loadChildren
  returned,   \* per node: the promises returned by its _loadChildren calls
  isI3S,      \* tile.tileset._isI3STileSet of the tile content is requested for
  payloads,   \* what the tile's node declares: geometry and feature payloads
  cnode,      \* the tile's node: _geometryData, _featureData, _glbURL
  ctile,      \* the tile: _isLoading, _contentResource, the current deferreds
  reqs,       \* the content requests started: _createContentURL run and deferreds
  host,       \* the host engine's requests (_hookedRequestContent calls)
  rets,       \* the values requestContent returned, in call order
  urls,       \* object URLs created so far (URL.createObjectURL)
  pdoc,       \* the provider's fetch of the service document
  layers,     \* the provider's layers: load phase, tileset calls received
  geoid,      \* the geoid load: whether a source is configured, and its state
  pready,     \* the provider's ready flag and readiness promise
  pdestroyed, \* whether the provider is destroyed
  destroyCalls, \* destroy() calls made on the provider
  pcalls,     \* the update calls made on the provider
  traceFetches, \* the provider's fetch-tracing flag
  jcalls,     \* the _loadJson calls made: the response and the promise returned
  jlog,       \* the locators written to the console by traced fetches
  tdata,      \* the metadata of the node a tile definition is made for
  tdef,       \* the tile definition made for it
  gtile,      \* a geoid tile: raster size, buffer, scale, offset, native extent
  gpoint,     \* the native point sampled on it
  gout,       \* the sample: the height and the buffer addresses read
  pshows,     \* the assignments made to the provider's show property
  extents,    \* the extents of the provider's layers (layer._extent)
  pextent,    \* the provider's extent
  computed,   \* whether _computeExtent has run, and the extent it found
  pnodes,     \* a root and its child: bounding data and cached transforms
  glist,      \* the provider's _geoidDataList
  ptasks      \* per node: the decode request made for its geometry

nodeVars == <<mode, nodes, loadP, fetches, tiles, promises, returned>>

contentVars == <<isI3S, payloads, cnode, ctile, reqs, host, rets, urls>>

providerVars == <<pdoc, layers, geoid, pready, pdestroyed, destroyCalls, pcalls>>

jsonVars == <<traceFetches, jcalls, jlog>>

tileDefVars == <<tdata, tdef>>

geoidVars == <<gtile, gpoint, gout>>

showVars == <<pshows>>

extentVars == <<extents, pextent, computed>>

placeVars == <<pnodes, glist, ptasks>>

\* What the actions of one component leave unchanged.
notNodeVars == <<contentVars, providerVars, jsonVars, tileDefVars, geoidVars, showVars, extentVars, placeVars>>
notContentVars == <<nodeVars, providerVars, jsonVars, tileDefVars, geoidVars, showVars, extentVars, placeVars>>
notProviderVars == <<nodeVars, contentVars, jsonVars, tileDefVars, geoidVars, showVars, extentVars, placeVars>>
notJsonVars == <<nodeVars, contentVars, providerVars, tileDefVars, geoidVars, showVars, extentVars, placeVars>>
notGeoidVars == <<nodeVars, contentVars, providerVars, jsonVars, tileDefVars, showVars, extentVars, placeVars>>
notTileDefVars == <<nodeVars, contentVars, providerVars, jsonVars, geoidVars, showVars, extentVars, placeVars>>

notPlaceVars == <<nodeVars, contentVars, providerVars, jsonVars, tileDefVars, geoidVars,
                  showVars, extentVars>>

vars == <<nodeVars, contentVars, providerVars, jsonVars, tileDefVars, geoidVars,
         showVars, extentVars, placeVars>>

--------------------------------------------------------------------------
\* JavaScript values of a child reference.
UndefinedV == [t |-> "undefined", n |-> 0, s |-> ""]
Num(n) == [t |-> "number", n |-> n, s |-> ""]
Str(s) == [t |-> "string", n |-> 0, s |-> s]
\* An object whose href property is h; "" when it has no href property.
Obj(h) == [t |-> "object", n |-> 0, s |-> h]

defined(v) == v.t # "undefined"

defaultValue(a, b) == IF defined(a) THEN a ELSE b

\* child.href for a declared child.
HrefOf(child) ==
  IF child.t = "object" /\ child.s # "" THEN Str(child.s) ELSE UndefinedV

\* The template string `${ref}/`.
TemplateSlash(ref) ==
  IF ref.t = "string" THEN ref.s ELSE "[object Object]"

\* Resource.getDerivedResource: a resource is the list of its url parts.
getDerivedResource(res, url) == Append(res, url)

LayerResource == <<"layer">>

\* Errors a metadata fetch or a node-page lookup can fail with: a transport
\* error and a service-error envelope.
Errors == {"E404", "EToken"}

NoData == [defined |-> FALSE, children |-> <<>>, bv |-> "none", mesh |-> FALSE]

\* Node metadata a legacy layer serves (children by href, by plain string, or
\* as an inline record) and a paged layer serves (children by index).
LegacyMeta ==
  { [defined |-> TRUE, children |-> <<>>, bv |-> "both", mesh |-> FALSE],
    [defined |-> TRUE, children |-> <<Obj("a")>>, bv |-> "mbs", mesh |-> FALSE],
    [defined |-> TRUE, children |-> <<Obj("a"), Str("b")>>, bv |-> "obb", mesh |-> FALSE],
    [defined |-> TRUE, children |-> <<Obj("")>>, bv |-> "none", mesh |-> FALSE] }

PagedMeta ==
  { [defined |-> TRUE, children |-> <<>>, bv |-> "obb", mesh |-> TRUE],
    [defined |-> TRUE, children |-> <<Num(1)>>, bv |-> "obb", mesh |-> FALSE],
    [defined |-> TRUE, children |-> <<Num(1), Num(2)>>, bv |-> "mbs", mesh |-> TRUE],
    [defined |-> TRUE, children |-> <<Num(3)>>, bv |-> "none", mesh |-> TRUE] }

Meta == IF mode = "legacy" THEN LegacyMeta ELSE PagedMeta

Pending == [state |-> "pending", reason |-> "none"]
Resolved == [state |-> "resolved", reason |-> "none"]
Rejected(e) == [state |-> "rejected", reason |-> e]

NodeIds == 1..Len(nodes)

\* One request (_loadJson or _getNodeInNodePages) issued and outstanding.
Issued == [issued |-> 1, state |-> "pending", reason |-> "none"]

--------------------------------------------------------------------------
\* A constructor that gives every child the level 1.
I3SNode_ChildLevelOne(parent, ref, isRoot) ==
  [ parent |-> parent,
    isRoot |-> isRoot,
    level |-> IF isRoot THEN 0 ELSE 1,
    nodeIndex |-> IF ref.t = "number" THEN ref.n ELSE -1,
    resource |-> IF ref.t = "number" THEN <<>>
                 ELSE getDerivedResource(
                        IF isRoot THEN LayerResource ELSE nodes[parent].resource,
                        TemplateSlash(ref)),
    tile |-> 0,
    transforms |-> "unset",
    data |-> NoData,
    children |-> <<>>,
    childrenReadyPromise |-> 0 ]

\* function I3SNode(parent, ref, isRoot); parent 0 is the layer.  transforms
\* tells whether _globalTransform, _inverseGlobalTransform and
\* _inverseRotationMatrix, which are assigned together, are set.
I3SNode(parent, ref, isRoot) ==
  [ parent |-> parent,
    isRoot |-> isRoot,
    level |-> IF isRoot THEN 0 ELSE nodes[parent].level + 1,
    nodeIndex |-> IF ref.t = "number" THEN ref.n ELSE -1,
    resource |-> IF ref.t = "number" THEN <<>>
                 ELSE getDerivedResource(
                        IF isRoot THEN LayerResource ELSE nodes[parent].resource,
                        TemplateSlash(ref)),
    tile |-> 0,
    transforms |-> "unset",
    data |-> NoData,
    children |-> <<>>,
    childrenReadyPromise |-> 0 ]

\* that._parent.resource, <<>> when undefined.
ParentResource(n) ==
  IF nodes[n].isRoot THEN LayerResource ELSE nodes[nodes[n].parent].resource

\* that._parent._tile, 0 when undefined (the layer holds no tile).
ParentTile(n) ==
  IF nodes[n].isRoot THEN 0 ELSE nodes[nodes[n].parent].tile

\* A synthesis that makes a definition without bounding data.
Create3DTileDefinitionDefined_Always(data) == TRUE

\* The early return of _create3DTileDefinition: no definition without
\* bounding data.
Create3DTileDefinitionDefined(data) == ~(data.bv = "none")

\* A continuation that derives a uri for the root only.
PagedUri_RootOnly(n, data) ==
  IF nodes[n].isRoot THEN "nodes/root/" ELSE ""

\* The uri load()'s continuation derives the resource of a paged node from;
\* "" when it leaves uri undefined.
PagedUri(n, data) ==
  IF nodes[n].isRoot THEN "nodes/root/"
  ELSE IF data.mesh THEN "../mesh/" ELSE ""

\* A processData that constructs no tile.
MakesTile_Never(node) == FALSE

\* processData constructs a tile for every node but the root.
MakesTile(node) == ~node.isRoot

\* Whether new Cesium3DTile(tileset, resource, header, parent) throws: the
\* constructor reads properties of header.
Cesium3DTileThrows(headerDefined) == ~headerDefined

--------------------------------------------------------------------------
\* The state once the layer has constructed its root node.
InitNode ==
  /\ mode \in {"legacy", "paged"}
  /\ nodes = << I3SNode(0, IF mode = "legacy" THEN Str("rootUrl") ELSE Num(0), TRUE) >>
  /\ loadP = << [state |-> "new", reason |-> "none"] >>
  /\ fetches = << [issued |-> 0, state |-> "none", reason |-> "none"] >>
  /\ tiles = <<>>
  /\ promises = <<>>
  /\ returned = << <<>> >>

\* A tile of a loaded node before its content is first requested.
IdleContent ==
  /\ cnode = [geometryData |-> 0, featureData |-> 0, glbURL |-> 0]
  /\ ctile = [isLoading |-> FALSE, contentResource |-> 0, defer |-> 0]
  /\ reqs = <<>>
  /\ host = <<>>
  /\ rets = <<>>
  /\ urls = 0

\* A provider on which no bootstrap runs and nothing was called.
IdleProvider ==
  /\ pdoc = "pending"
  /\ layers = <<>>
  /\ geoid = [configured |-> FALSE, state |-> "idle"]
  /\ pready = [ready |-> FALSE, promise |-> Pending]
  /\ pdestroyed = FALSE
  /\ destroyCalls = 0
  /\ pcalls = <<>>

\* A provider that has fetched nothing.
IdleJson ==
  /\ traceFetches = FALSE
  /\ jcalls = <<>>
  /\ jlog = <<>>

\* A quotient num / den, or num / sqrt(den / (PI * 0.25)) when root holds.
Quotient(num, den, root) == [num |-> num, den |-> den, root |-> root]

UndefinedDefinition ==
  [defined |-> FALSE, boundingVolume |-> [box |-> <<>>, sphere |-> <<>>],
   refine |-> "none", geometricError |-> Quotient(0, 1, FALSE)]

\* No definition was made yet.
NoDefinition == [UndefinedDefinition EXCEPT !.refine = "unmade"]

IdleTileDef ==
  /\ tdata = [obb |-> [defined |-> FALSE, halfSize |-> <<0, 0, 0>>],
              mbs |-> [defined |-> FALSE, radius |-> 0],
              lodThreshold |-> 0, layerMetricType |-> "maxScreenThreshold",
              lodSelection |-> [defined |-> FALSE, entries |-> <<>>]]
  /\ tdef = NoDefinition

\* No sample was taken yet.
NoSample == [made |-> FALSE, nan |-> FALSE, value4 |-> 0, reads |-> <<>>]

\* The first geoid tile of the tests, and no sample taken.
IdleGeoid ==
  /\ gtile = [width |-> 2, height |-> 2, buffer |-> <<0, 1, 2, 3>>,
              scale |-> 1, offset |-> 0, west |-> 0, south |-> 0]
  /\ gpoint = [x |-> 0, y |-> 0]
  /\ gout = NoSample

\* A provider whose show property was never assigned.
IdleShow == pshows = <<>>

\* An undefined extent.
NoExtent == [defined |-> FALSE, west |-> 0, south |-> 0, east |-> 0, north |-> 0]

\* A provider without layers whose extent was not computed.
IdleExtent ==
  /\ extents = <<>>
  /\ pextent = NoExtent
  /\ computed = [done |-> FALSE, former |-> NoExtent]

\* A provider without geoid list for whose nodes no definition was made.
NoGeoidList == [defined |-> FALSE, tiles |-> <<>>]
IdlePlace ==
  /\ pnodes = <<>>
  /\ glist = NoGeoidList
  /\ ptasks = <<>>

\* The layer calls rootNode.load(): the synchronous part of load() issues
\* one request (_loadJson or _getNodeInNodePages).
LoadRoot ==
  /\ loadP[1].state = "new"
  /\ loadP' = [loadP EXCEPT ![1] = Pending]
  /\ fetches' = [fetches EXCEPT ![1] = Issued]
  /\ UNCHANGED <<mode, nodes, tiles, promises, returned, notNodeVars>>

\* A rejection of child c's load() rejects, through Promise.all, every
\* pending children promise that waits for c.
RejectJoins(ps, c, e) ==
  [p \in 1..Len(ps) |->
     IF ps[p].state = "pending" /\ (\E i \in 1..Len(ps[p].waits) : ps[p].waits[i] = c)
     THEN [ps[p] EXCEPT !.state = "rejected", !.reason = e]
     ELSE ps[p]]

\* The continuation of load() on the fetched metadata: data is stored, a
\* paged node derives its resource, and processData constructs the tile of
\* a node that is not the root.
LoadResolved(n, d) ==
  /\ n \in NodeIds
  /\ loadP[n].state = "pending"
  /\ d \in Meta
  /\ fetches' = [fetches EXCEPT ![n].state = "resolved"]
  /\ LET paged == nodes[n].nodeIndex # -1
         uri == PagedUri(n, d)
         derefFails == paged /\ uri # "" /\ ParentResource(n) = <<>>
         res == IF paged /\ uri # "" /\ ~derefFails
                THEN getDerivedResource(ParentResource(n), uri)
                ELSE nodes[n].resource
         makesTile == ~derefFails /\ MakesTile(nodes[n])
         header == Create3DTileDefinitionDefined(d)
         ctorFails == makesTile /\ Cesium3DTileThrows(header)
         tid == Len(tiles) + 1
     IN IF derefFails \/ ctorFails
        THEN /\ nodes' = [nodes EXCEPT ![n].data = d, ![n].resource = res]
             /\ loadP' = [loadP EXCEPT ![n] = Rejected("TypeError")]
             /\ promises' = RejectJoins(promises, n, "TypeError")
             /\ UNCHANGED tiles
        ELSE /\ nodes' = [nodes EXCEPT ![n].data = d, ![n].resource = res,
                                       ![n].tile = IF makesTile THEN tid ELSE @,
                                       ![n].transforms =
                                          IF makesTile /\ header THEN "set" ELSE @]
             /\ tiles' = IF makesTile
                         THEN Append(tiles, [i3sNode |-> n, parent |-> ParentTile(n),
                                             children |-> <<>>])
                         ELSE tiles
             /\ loadP' = [loadP EXCEPT ![n] = Resolved]
             /\ UNCHANGED promises
  /\ UNCHANGED <<mode, returned, notNodeVars>>

\* A load() that answered a failed request by issuing the request again.
LoadRejected_Retry(n, e) ==
  /\ n \in NodeIds
  /\ loadP[n].state = "pending"
  /\ e \in Errors
  /\ fetches[n].issued < MaxCalls
  /\ fetches' = [fetches EXCEPT ![n].issued = @ + 1, ![n].state = "rejected",
                                ![n].reason = e]
  /\ UNCHANGED <<mode, nodes, loadP, tiles, promises, returned, notNodeVars>>

\* The fetch or the node-page lookup fails with e: load() has no rejection
\* handler, so the promise it returned rejects with e.
LoadRejected(n, e) ==
  /\ n \in NodeIds
  /\ loadP[n].state = "pending"
  /\ e \in Errors
  /\ fetches' = [fetches EXCEPT ![n].state = "rejected", ![n].reason = e]
  /\ loadP' = [loadP EXCEPT ![n] = Rejected(e)]
  /\ promises' = RejectJoins(promises, n, e)
  /\ UNCHANGED <<mode, nodes, tiles, returned, notNodeVars>>

\* The layer builds its tileset from the loaded root's tile definition and
\* links the tileset's root tile and the root node to each other.
LayerCreateRootTile ==
  /\ loadP[1].state = "resolved"
  /\ nodes[1].tile = 0
  /\ Create3DTileDefinitionDefined(nodes[1].data)
  /\ tiles' = Append(tiles, [i3sNode |-> 1, parent |-> 0, children |-> <<>>])
  /\ nodes' = [nodes EXCEPT ![1].tile = Len(tiles) + 1, ![1].transforms = "set"]
  /\ UNCHANGED <<mode, loadP, fetches, promises, returned, notNodeVars>>

\* A _loadChildren that never finds its promise.
ChildrenPromiseDefined_Never(node) == FALSE

\* The guard of _loadChildren: the promise was already created.
ChildrenPromiseDefined(node) == node.childrenReadyPromise # 0

\* _loadChildren() on node n, called through the node's tile.
LoadChildren(n) ==
  /\ n \in NodeIds
  /\ nodes[n].data.defined
  /\ nodes[n].tile # 0
  /\ Len(returned[n]) < MaxCalls
  /\ IF ChildrenPromiseDefined(nodes[n])
     THEN /\ returned' = [returned EXCEPT ![n] = Append(@, nodes[n].childrenReadyPromise)]
          /\ UNCHANGED <<mode, nodes, loadP, fetches, tiles, promises, notNodeVars>>
     ELSE LET decl == nodes[n].data.children
              k == Len(decl)
              base == Len(nodes)
              newIds == [i \in 1..k |-> base + i]
              newNodes == [i \in 1..k |->
                             I3SNode(n, defaultValue(HrefOf(decl[i]), decl[i]), FALSE)]
              pid == Len(promises) + 1
          IN /\ base + k <= MaxNodes
             /\ nodes' = [nodes EXCEPT ![n].children = @ \o newIds,
                                       ![n].childrenReadyPromise = pid] \o newNodes
             /\ loadP' = loadP \o [i \in 1..k |-> Pending]
             /\ fetches' = fetches \o [i \in 1..k |-> Issued]
             /\ returned' = [returned EXCEPT ![n] = Append(@, pid)] \o [i \in 1..k |-> <<>>]
             /\ promises' = Append(promises,
                                   [state |-> "pending", reason |-> "none",
                                    node |-> n, waits |-> newIds])
             /\ UNCHANGED <<mode, tiles, notNodeVars>>

\* A join that fires as soon as one child load has resolved.
AllLoaded_Any(waits) ==
  waits = <<>> \/ \E i \in 1..Len(waits) : loadP[waits[i]].state = "resolved"

\* Promise.all(childPromises) resolves: every child load has resolved.
AllLoaded(waits) ==
  \A i \in 1..Len(waits) : loadP[waits[i]].state = "resolved"

\* A continuation that appends the child tiles in the order in which the
\* child loads completed, which is the order the tiles were constructed in.
ChildrenJoined_CompletionOrder(p) ==
  /\ p \in 1..Len(promises)
  /\ promises[p].state = "pending"
  /\ AllLoaded(promises[p].waits)
  /\ LET n == promises[p].node
         t == nodes[n].tile
         ids == [i \in 1..Len(tiles) |-> i]
         mine == SelectSeq(ids, LAMBDA c : tiles[c].i3sNode # n
                                          /\ nodes[tiles[c].i3sNode].parent = n)
     IN /\ tiles' = [tiles EXCEPT ![t].children = @ \o mine]
        /\ promises' = [promises EXCEPT ![p].state = "resolved"]
  /\ UNCHANGED <<mode, nodes, loadP, fetches, returned, notNodeVars>>

\* Promise.all(childPromises).then(...): once every child load of the call
\* has resolved, the continuation appends the tile of every child of the
\* node to the node's tile's children.
ChildrenJoined(p) ==
  /\ p \in 1..Len(promises)
  /\ promises[p].state = "pending"
  /\ AllLoaded(promises[p].waits)
  /\ LET n == promises[p].node
         t == nodes[n].tile
         ch == nodes[n].children
     IN /\ tiles' = [tiles EXCEPT ![t].children =
                        @ \o [i \in 1..Len(ch) |-> nodes[ch[i]].tile]]
        /\ promises' = [promises EXCEPT ![p].state = "resolved"]
  /\ UNCHANGED <<mode, nodes, loadP, fetches, returned, notNodeVars>>

NextNode ==
  \/ LoadRoot
  \/ \E n \in NodeIds : \E d \in Meta : LoadResolved(n, d)
  \/ \E n \in NodeIds : \E e \in Errors : LoadRejected(n, e)
  \/ LayerCreateRootTile
  \/ \E n \in NodeIds : LoadChildren(n)
  \/ \E p \in 1..Len(promises) : ChildrenJoined(p)

Init ==
  /\ InitNode
  /\ isI3S = TRUE
  /\ payloads = [nGeom |-> 0, nFeat |-> 0]
  /\ IdleContent
  /\ IdleProvider
  /\ IdleJson
  /\ IdleTileDef
  /\ IdleGeoid
  /\ IdleShow
  /\ IdleExtent
  /\ IdlePlace

\* The node hierarchy of one layer.
Spec == Init /\ [][NextNode]_vars

--------------------------------------------------------------------------
\* Content requests on one tile (Cesium3DTile.prototype.requestContent).

\* A content request that has just started: _createContentURL waits for the
\* feature and geometry loads, and both deferreds are pending.
NewRequest ==
  [ phase |-> "data", reason |-> "none", refused |-> FALSE, dispatched |-> 0,
    assembled |-> FALSE, url |-> 0, deferRTP |-> "pending",
    deferReady |-> "pending", readyCalls |-> 0, host |-> 0, task |-> 0 ]

\* A request of the host engine: its two content promises, whether
\* _resolveHookedObject has attached its continuations to them, and the value
\* the call returned (0 where _resolveHookedObject discards it).
HostRequest(hooked, resource, result) ==
  [ rtp |-> "pending", ready |-> "pending", hooked |-> hooked, resource |-> resource,
    result |-> result ]

\* What the host engine's requestContent may return: the number of requests
\* it could not issue.
HostResults == {0, 1}

\* A delegation that drops the host's result and reports a request as issued.
ReturnedByHook_Dropped(result) == result - result

\* return this._hookedRequestContent(): the host's result is handed back.
ReturnedByHook(result) == result

InitContent ==
  /\ isI3S \in BOOLEAN
  /\ payloads \in [nGeom : 0..2, nFeat : 0..1]
  /\ IdleContent

\* A requestContent that never finds the tile loading.
IsLoading_Never(t) == FALSE

\* Whether the tile is already loading, as requestContent reads it.
IsLoading(t) == t.isLoading

\* requestContent() on the tile.
RequestContent ==
  /\ Len(rets) < MaxRequests
  /\ IF ~isI3S
     THEN /\ \E result \in HostResults :
               /\ host' = Append(host, HostRequest(FALSE, 0, result))
               /\ rets' = Append(rets, ReturnedByHook(result))
          /\ UNCHANGED <<cnode, ctile, reqs>>
     ELSE IF ~IsLoading(ctile)
     THEN /\ ctile' = [ctile EXCEPT !.isLoading = TRUE, !.defer = Len(reqs) + 1]
          /\ reqs' = Append(reqs, NewRequest)
          /\ cnode' = [cnode EXCEPT !.featureData = @ + payloads.nFeat,
                                    !.geometryData = @ + payloads.nGeom]
          /\ rets' = Append(rets, 0)
          /\ UNCHANGED host
     ELSE /\ rets' = Append(rets, 1)
          /\ UNCHANGED <<cnode, ctile, reqs, host>>
  /\ UNCHANGED <<isI3S, payloads, urls, notContentVars>>

\* What _createI3SDecoderTask returns is always a promise, the continuation
\* of _taskProcessorReadyPromise, so defined(task) holds.
TaskDefined == TRUE

\* The tail of _createContentURL and the continuation requestContent
\* attached to it: the glTF is binarized, the object URL becomes the node's
\* _glbURL, and _resolveHookedObject issues the host engine's request for
\* it and attaches its continuations to the host's promises.
Finish(r, assembled) ==
  /\ urls' = urls + 1
  /\ cnode' = [cnode EXCEPT !.glbURL = urls + 1]
  /\ ctile' = [ctile EXCEPT !.contentResource = urls + 1]
  /\ host' = Append(host, HostRequest(TRUE, urls + 1, 0))
  /\ reqs' = [reqs EXCEPT ![r].phase = "resolved", ![r].assembled = assembled,
                          ![r].url = urls + 1, ![r].host = Len(host) + 1]

\* The postponed return of _createContentURL: no URL is made, and the
\* continuation of requestContent wraps the node's _glbURL as it is.
Postponed(r) ==
  /\ ctile' = [ctile EXCEPT !.contentResource = cnode.glbURL]
  /\ host' = Append(host, HostRequest(TRUE, cnode.glbURL, 0))
  /\ reqs' = [reqs EXCEPT ![r].phase = "resolved", ![r].host = Len(host) + 1]
  /\ UNCHANGED <<urls, cnode>>

\* A decode request made for the payload loaded last.
DecodedGeometry_Last(n) == n

\* The geometry payload the decode request is made for, by its place in
\* _geometryData (from 1): that._geometryData[0].
DecodedGeometry(n) == IF n > 0 THEN 1 ELSE 0

\* The feature and geometry loads of request r have all resolved.
DataLoaded(r) ==
  /\ r \in 1..Len(reqs)
  /\ reqs[r].phase = "data"
  /\ IF cnode.geometryData > 0
     THEN IF ~TaskDefined
          THEN Postponed(r)
          ELSE /\ reqs' = [reqs EXCEPT ![r].phase = "taskWait",
                                       ![r].task = DecodedGeometry(cnode.geometryData)]
               /\ UNCHANGED <<urls, cnode, ctile, host>>
     ELSE Finish(r, FALSE)
  /\ UNCHANGED <<isI3S, payloads, rets, notContentVars>>

\* A feature or geometry load of request r rejects: so does the promise of
\* _createContentURL, which requestContent gave no rejection handler.
DataFailed(r) ==
  /\ r \in 1..Len(reqs)
  /\ reqs[r].phase = "data"
  /\ payloads.nGeom + payloads.nFeat > 0
  /\ reqs' = [reqs EXCEPT ![r].phase = "rejected", ![r].reason = "E404"]
  /\ UNCHANGED <<isI3S, payloads, cnode, ctile, host, rets, urls, notContentVars>>

\* The continuation of _taskProcessorReadyPromise calls scheduleTask, which
\* returns a promise, or undefined when the worker pool is saturated.  The
\* task promise then resolves with undefined, and the continuation that
\* reads result.meshData throws a TypeError.
ScheduleTask(r, accepted) ==
  /\ r \in 1..Len(reqs)
  /\ reqs[r].phase = "taskWait"
  /\ IF accepted
     THEN reqs' = [reqs EXCEPT ![r].phase = "decoding", ![r].dispatched = @ + 1]
     ELSE reqs' = [reqs EXCEPT ![r].phase = "rejected", ![r].reason = "TypeError",
                              ![r].refused = TRUE]
  /\ UNCHANGED <<isI3S, payloads, cnode, ctile, host, rets, urls, notContentVars>>

\* The worker returns the decoded mesh data: the glTF is assembled.
DecodeDone(r) ==
  /\ r \in 1..Len(reqs)
  /\ reqs[r].phase = "decoding"
  /\ Finish(r, TRUE)
  /\ UNCHANGED <<isI3S, payloads, rets, notContentVars>>

\* The worker fails.
DecodeFailed(r) ==
  /\ r \in 1..Len(reqs)
  /\ reqs[r].phase = "decoding"
  /\ reqs' = [reqs EXCEPT ![r].phase = "rejected", ![r].reason = "EDecode"]
  /\ UNCHANGED <<isI3S, payloads, cnode, ctile, host, rets, urls, notContentVars>>

\* A ready-to-process continuation that already clears _isLoading.
HostReadyToProcess_ClearsLoading(h) ==
  /\ h \in 1..Len(host)
  /\ host[h].rtp = "pending"
  /\ host' = [host EXCEPT ![h].rtp = "resolved"]
  /\ reqs' = IF host[h].hooked
             THEN [reqs EXCEPT ![ctile.defer].deferRTP = "resolved"]
             ELSE reqs
  /\ ctile' = IF host[h].hooked THEN [ctile EXCEPT !.isLoading = FALSE] ELSE ctile
  /\ UNCHANGED <<isI3S, payloads, cnode, rets, urls, notContentVars>>

\* The host's content-ready-to-process promise resolves; the continuation
\* of _resolveHookedObject resolves the tile's current deferred.
HostReadyToProcess(h) ==
  /\ h \in 1..Len(host)
  /\ host[h].rtp = "pending"
  /\ host' = [host EXCEPT ![h].rtp = "resolved"]
  /\ reqs' = IF host[h].hooked
             THEN [reqs EXCEPT ![ctile.defer].deferRTP = "resolved"]
             ELSE reqs
  /\ UNCHANGED <<isI3S, payloads, cnode, ctile, rets, urls, notContentVars>>

\* The host's content-ready promise resolves; the continuation of
\* _resolveHookedObject clears _isLoading and resolves the current deferred.
HostReady(h) ==
  /\ h \in 1..Len(host)
  /\ host[h].rtp = "resolved"
  /\ host[h].ready = "pending"
  /\ host' = [host EXCEPT ![h].ready = "resolved"]
  /\ IF host[h].hooked
     THEN /\ ctile' = [ctile EXCEPT !.isLoading = FALSE]
          /\ reqs' = [reqs EXCEPT ![ctile.defer].deferReady = "resolved",
                                  ![ctile.defer].readyCalls = @ + 1]
     ELSE UNCHANGED <<ctile, reqs>>
  /\ UNCHANGED <<isI3S, payloads, cnode, rets, urls, notContentVars>>

\* The host's request fails: its promises reject, and _resolveHookedObject
\* attached no rejection handler.
HostFailed(h) ==
  /\ h \in 1..Len(host)
  /\ host[h].ready = "pending"
  /\ host' = [host EXCEPT ![h].rtp = IF @ = "pending" THEN "rejected" ELSE @,
                          ![h].ready = "rejected"]
  /\ UNCHANGED <<isI3S, payloads, cnode, ctile, reqs, rets, urls, notContentVars>>

NextContent ==
  \/ RequestContent
  \/ \E r \in 1..Len(reqs) : DataLoaded(r)
  \/ \E r \in 1..Len(reqs) : DataFailed(r)
  \/ \E r \in 1..Len(reqs) : \E accepted \in BOOLEAN : ScheduleTask(r, accepted)
  \/ \E r \in 1..Len(reqs) : DecodeDone(r)
  \/ \E r \in 1..Len(reqs) : DecodeFailed(r)
  \/ \E h \in 1..Len(host) : HostReadyToProcess(h)
  \/ \E h \in 1..Len(host) : HostReady(h)
  \/ \E h \in 1..Len(host) : HostFailed(h)

InitSpecContent ==
  /\ mode = "paged"
  /\ InitNode
  /\ InitContent
  /\ IdleProvider
  /\ IdleJson
  /\ IdleTileDef
  /\ IdleGeoid
  /\ IdleShow
  /\ IdleExtent
  /\ IdlePlace

\* The content requests of one tile of a loaded node.
SpecContent == InitSpecContent /\ [][NextContent]_vars

--------------------------------------------------------------------------
\* The provider (I3SDataProvider): bootstrap, frame-update forwarding and
\* destroy, as the tests of Specs/Scene/I3SDataProviderSpec.js drive it.

\* A layer the provider has constructed.  phase: "loading" (no tileset yet),
\* "tileset" (tileset constructed, not ready), "loaded" (tileset ready, the
\* root node has its tile), "failed" (the root load rejected).
NewLayer == [phase |-> "loading", destroys |-> 0, calls |-> <<>>, show |-> "unset"]

\* layer._tileset is defined.
TilesetDefined(layer) == layer.phase \in {"tileset", "loaded"}

\* layer._tileset.ready.
TilesetReady(layer) == layer.phase = "loaded"

\* The layers the tests install: a tileset that is not ready, a ready one,
\* and a layer without tileset.
mockLayers ==
  << [NewLayer EXCEPT !.phase = "tileset"],
     [NewLayer EXCEPT !.phase = "loaded"],
     NewLayer >>

Methods == {"update", "prePassesUpdate", "postPassesUpdate", "updateForPass"}
FrameStates == {"frameState1", "frameState2"}
PassStates == {"passState1", "passState2"}

\* The arguments a method takes: a frame state, and for updateForPass a
\* pass state.
ArgsOf(method) ==
  IF method = "updateForPass"
  THEN {<<f, q>> : f \in FrameStates, q \in PassStates}
  ELSE {<<f>> : f \in FrameStates}

\* A new provider whose bootstrap is under way, or, as in the tests, one
\* whose bootstrap is stubbed and whose layers are mockLayers.
InitProvider ==
  /\ \/ pdoc = "pending" /\ layers = <<>>
     \/ pdoc = "stubbed" /\ layers = mockLayers
  /\ geoid \in [configured : BOOLEAN, state : {"idle"}]
  /\ pready = [ready |-> FALSE, promise |-> Pending]
  /\ pdestroyed = FALSE
  /\ destroyCalls = 0
  /\ pcalls = <<>>

\* bootstrap: the service document arrives and declares k layers.  One
\* layer is constructed per entry and its root load triggered; the extent
\* is computed and the geoid load started.
DocLoaded(k) ==
  /\ ~pdestroyed
  /\ pdoc = "pending"
  /\ k \in 1..MaxLayers
  /\ pdoc' = "resolved"
  /\ layers' = [i \in 1..k |-> NewLayer]
  /\ geoid' = [geoid EXCEPT !.state = "pending"]
  /\ UNCHANGED <<pready, pdestroyed, destroyCalls, pcalls, notProviderVars>>

\* bootstrap: the fetch of the service document fails.
DocFailed(e) ==
  /\ ~pdestroyed
  /\ pdoc = "pending"
  /\ e \in Errors
  /\ pdoc' = "rejected"
  /\ pready' = [pready EXCEPT !.promise = Rejected(e)]
  /\ UNCHANGED <<layers, geoid, pdestroyed, destroyCalls, pcalls, notProviderVars>>

\* A layer's root node has loaded its metadata and the layer has
\* constructed its tileset.
LayerTilesetCreated(l) ==
  /\ ~pdestroyed
  /\ pdoc = "resolved"
  /\ l \in 1..Len(layers)
  /\ layers[l].phase = "loading"
  /\ layers' = [layers EXCEPT ![l].phase = "tileset"]
  /\ UNCHANGED <<pdoc, geoid, pready, pdestroyed, destroyCalls, pcalls, notProviderVars>>

\* A layer's tileset is ready and its root tile linked to the root node:
\* the layer's load has resolved.
LayerLoaded(l) ==
  /\ ~pdestroyed
  /\ pdoc = "resolved"
  /\ l \in 1..Len(layers)
  /\ layers[l].phase = "tileset"
  /\ layers' = [layers EXCEPT ![l].phase = "loaded"]
  /\ UNCHANGED <<pdoc, geoid, pready, pdestroyed, destroyCalls, pcalls, notProviderVars>>

\* A layer's root load rejects, and with it the provider's readiness.
LayerFailed(l, e) ==
  /\ ~pdestroyed
  /\ pdoc = "resolved"
  /\ l \in 1..Len(layers)
  /\ layers[l].phase = "loading"
  /\ e \in Errors
  /\ layers' = [layers EXCEPT ![l].phase = "failed"]
  /\ pready' = IF pready.promise.state = "pending"
               THEN [pready EXCEPT !.promise = Rejected(e)]
               ELSE pready
  /\ UNCHANGED <<pdoc, geoid, pdestroyed, destroyCalls, pcalls, notProviderVars>>

\* The geoid load completes (at once when no geoid source is configured).
GeoidLoaded ==
  /\ ~pdestroyed
  /\ geoid.state = "pending"
  /\ geoid' = [geoid EXCEPT !.state = "done"]
  /\ UNCHANGED <<pdoc, layers, pready, pdestroyed, destroyCalls, pcalls, notProviderVars>>

\* A bootstrap that does not wait for the geoid load.
BootstrapJoined_LayersOnly ==
  /\ pdoc = "resolved"
  /\ \A l \in 1..Len(layers) : layers[l].phase = "loaded"

\* The join of bootstrap: every layer's root load and the geoid load.
BootstrapJoined ==
  /\ pdoc = "resolved"
  /\ \A l \in 1..Len(layers) : layers[l].phase = "loaded"
  /\ geoid.state = "done"

\* bootstrap resolves the readiness future.
ProviderReady ==
  /\ ~pdestroyed
  /\ pready.promise.state = "pending"
  /\ BootstrapJoined
  /\ pready' = [ready |-> TRUE, promise |-> Resolved]
  /\ UNCHANGED <<pdoc, layers, geoid, pdestroyed, destroyCalls, pcalls, notProviderVars>>

\* A forwarding that skips only the layers without tileset.
Forwards_AnyTileset(layer) == TilesetDefined(layer)

\* An assignment of show that reaches only the ready tilesets.
ShowReaches_ReadyOnly(layer) == TilesetDefined(layer) /\ TilesetReady(layer)

\* Whether an assignment of show reaches a layer's tileset.
ShowReaches(layer) == TilesetDefined(layer)

\* Whether update and the pass callbacks forward to a layer's tileset.
Forwards(layer) == TilesetDefined(layer) /\ TilesetReady(layer)

\* update, prePassesUpdate, postPassesUpdate or updateForPass on the
\* provider: the call is forwarded with its arguments to each layer's
\* tileset that exists and is ready.
Update(method, args) ==
  /\ ~pdestroyed
  /\ Len(pcalls) < MaxUpdates
  /\ method \in Methods
  /\ args \in ArgsOf(method)
  /\ pcalls' = Append(pcalls,
                      [method |-> method, args |-> args,
                       ready |-> {l \in 1..Len(layers) : TilesetReady(layers[l])}])
  /\ layers' = [l \in 1..Len(layers) |->
                  IF Forwards(layers[l])
                  THEN [layers[l] EXCEPT !.calls = Append(@, [method |-> method, args |-> args])]
                  ELSE layers[l]]
  /\ UNCHANGED <<pdoc, geoid, pready, pdestroyed, destroyCalls, notProviderVars>>

\* A destroy without the check of the destroyed flag.
DestroyGuard_None == TRUE

\* The idempotence check of destroy.
DestroyGuard == ~pdestroyed

\* destroy(): every layer's tileset is destroyed and the provider marked
\* destroyed; on a destroyed provider the call destroys nothing.
Destroy ==
  /\ destroyCalls < MaxDestroys
  /\ destroyCalls' = destroyCalls + 1
  /\ IF DestroyGuard
     THEN /\ layers' = [l \in 1..Len(layers) |->
                          IF TilesetDefined(layers[l])
                          THEN [layers[l] EXCEPT !.destroys = @ + 1]
                          ELSE layers[l]]
          /\ pdestroyed' = TRUE
     ELSE UNCHANGED <<layers, pdestroyed>>
  /\ UNCHANGED <<pdoc, geoid, pready, pcalls, notProviderVars>>

NextProvider ==
  \/ \E k \in 1..MaxLayers : DocLoaded(k)
  \/ \E e \in Errors : DocFailed(e)
  \/ \E l \in 1..Len(layers) : LayerTilesetCreated(l)
  \/ \E l \in 1..Len(layers) : LayerLoaded(l)
  \/ \E l \in 1..Len(layers) : \E e \in Errors : LayerFailed(l, e)
  \/ GeoidLoaded
  \/ ProviderReady
  \/ \E method \in Methods : \E args \in ArgsOf(method) : Update(method, args)
  \/ Destroy

InitSpecProvider ==
  /\ mode = "paged"
  /\ InitNode
  /\ isI3S = TRUE
  /\ payloads = [nGeom |-> 0, nFeat |-> 0]
  /\ IdleContent
  /\ InitProvider
  /\ IdleJson
  /\ IdleTileDef
  /\ IdleGeoid
  /\ IdleShow
  /\ IdleExtent
  /\ IdlePlace

\* The provider of a service with up to MaxLayers layers.
SpecProvider == InitSpecProvider /\ [][NextProvider]_vars

--------------------------------------------------------------------------
\* Fetching a JSON resource (I3SDataProvider.prototype._loadJson).

\* The decoded bodies a fetch can return: plain documents, and service-error
\* envelopes whose error property is the named error object.
JsonBodies ==
  { [name |-> "json1", error |-> "none"],
    [name |-> "json2", error |-> "none"],
    [name |-> "json3", error |-> "none"],
    [name |-> "envelope498", error |-> "error498"],
    [name |-> "envelope499", error |-> "error499"] }

\* The errors the transport can fail with (non-2xx, unreachable).
TransportErrors == {"status404", "status500"}

Locators == {"mockJsonUri", "mockBinaryUri"}

\* A _loadJson that rejects with the envelope it received.
LoadJsonSettle_RejectsBody(body) ==
  IF body.error # "none"
  THEN [state |-> "rejected", value |-> body.name]
  ELSE [state |-> "resolved", value |-> body.name]

\* The continuation of fetchJson in _loadJson: a body with an error property
\* rejects with that property's value, any other body is the result.
LoadJsonSettle(body) ==
  IF body.error # "none"
  THEN [state |-> "rejected", value |-> body.error]
  ELSE [state |-> "resolved", value |-> body.name]

InitJson ==
  /\ traceFetches \in BOOLEAN
  /\ jcalls = <<>>
  /\ jlog = <<>>

\* _loadJson(resource): the locator is logged when fetches are traced, and
\* the fetch is issued.
LoadJson(url) ==
  /\ Len(jcalls) < MaxFetches
  /\ url \in Locators
  /\ jlog' = IF traceFetches THEN Append(jlog, url) ELSE jlog
  /\ jcalls' = Append(jcalls, [url |-> url, body |-> "none",
                               state |-> "pending", value |-> "none"])
  /\ UNCHANGED <<traceFetches, notJsonVars>>

\* The transport succeeds with a decoded body.
FetchJsonResolved(c, body) ==
  /\ c \in 1..Len(jcalls)
  /\ jcalls[c].state = "pending"
  /\ body \in JsonBodies
  /\ jcalls' = [jcalls EXCEPT ![c].body = body.name,
                              ![c].state = LoadJsonSettle(body).state,
                              ![c].value = LoadJsonSettle(body).value]
  /\ UNCHANGED <<traceFetches, jlog, notJsonVars>>

\* The transport fails: _loadJson has no rejection handler.
FetchJsonRejected(c, e) ==
  /\ c \in 1..Len(jcalls)
  /\ jcalls[c].state = "pending"
  /\ e \in TransportErrors
  /\ jcalls' = [jcalls EXCEPT ![c].state = "rejected", ![c].value = e]
  /\ UNCHANGED <<traceFetches, jlog, notJsonVars>>

NextJson ==
  \/ \E url \in Locators : LoadJson(url)
  \/ \E c \in 1..Len(jcalls) : \E body \in JsonBodies : FetchJsonResolved(c, body)
  \/ \E c \in 1..Len(jcalls) : \E e \in TransportErrors : FetchJsonRejected(c, e)

InitSpecJson ==
  /\ mode = "legacy"
  /\ InitNode
  /\ isI3S = TRUE
  /\ payloads = [nGeom |-> 0, nFeat |-> 0]
  /\ IdleContent
  /\ IdleProvider
  /\ InitJson
  /\ IdleTileDef
  /\ IdleGeoid
  /\ IdleShow
  /\ IdleExtent
  /\ IdlePlace

\* The JSON fetches of one provider.
SpecJson == InitSpecJson /\ [][NextJson]_vars

--------------------------------------------------------------------------
\* The tile definition of a node (I3SNode.prototype._create3DTileDefinition).
\* An undefined obb, mbs or lodSelection is <<>>-less: it is a record with
\* defined = FALSE; an undefined lodThreshold is 0.  The position and the
\* transform of the definition are not modelled.

\* this._data.obb, by its half sizes.
Obbs ==
  { [defined |-> FALSE, halfSize |-> <<0, 0, 0>>],
    [defined |-> TRUE, halfSize |-> <<20000, 20000, 500>>],
    [defined |-> TRUE, halfSize |-> <<3, 7, 5>>] }

\* this._data.mbs, by its radius mbs[3].
Mbss ==
  { [defined |-> FALSE, radius |-> 0],
    [defined |-> TRUE, radius |-> 28288] }

LodEntries ==
  { [metricType |-> "maxScreenThresholdSQ", maxError |-> 4],
    [metricType |-> "maxScreenThreshold", maxError |-> 2],
    [metricType |-> "maxScreenThreshold", maxError |-> 5],
    [metricType |-> "density", maxError |-> 3] }

\* The lists of at most n entries.
LodLists(n) == UNION { [1..k -> LodEntries] : k \in 0..n }

LodThresholds == {0, 4}

\* this._layer._data.nodePages.lodSelectionMetricType
LayerMetricTypes == {"maxScreenThresholdSQ", "maxScreenThreshold", "density"}

Max2(a, b) == IF a > b THEN a ELSE b

\* A definition whose bounding volume is a sphere whenever the node has one.
BoundingVolume_PrefersSphere(obb, mbs) ==
  IF mbs.defined
  THEN [box |-> <<>>, sphere |-> <<0, 0, 0, mbs.radius>>]
  ELSE [box |-> <<0, 0, 0, obb.halfSize[1], 0, 0, 0, obb.halfSize[2], 0, 0, 0,
                  obb.halfSize[3]>>,
        sphere |-> <<>>]

\* The bounding volume of the definition; an absent property is <<>>.
BoundingVolume(obb, mbs) ==
  IF obb.defined
  THEN [box |-> <<0, 0, 0, obb.halfSize[1], 0, 0, 0, obb.halfSize[2], 0, 0, 0,
                  obb.halfSize[3]>>,
        sphere |-> <<>>]
  ELSE [box |-> <<>>, sphere |-> <<0, 0, 0, mbs.radius>>]

\* span, doubled.
SpanOf(obb, mbs) ==
  2 * (IF obb.defined
       THEN Max2(Max2(obb.halfSize[1], obb.halfSize[2]), obb.halfSize[3])
       ELSE mbs.radius)

Infinity == Quotient(1, 0, FALSE)

\* A loop over lodSelection that takes every entry's maxError.
LodSelectionLoop_AnyMetric(span, entries, lodIndex, metersPerPixel) ==
  IF entries = <<>> THEN metersPerPixel
  ELSE Quotient(span, entries[Len(entries)].maxError, FALSE)

\* The loop over lodSelection from lodIndex on: every maxScreenThreshold
\* entry overwrites metersPerPixel.
RECURSIVE LodSelectionLoop(_, _, _, _)
LodSelectionLoop(span, entries, lodIndex, metersPerPixel) ==
  IF lodIndex > Len(entries) THEN metersPerPixel
  ELSE LodSelectionLoop(span, entries, lodIndex + 1,
         IF entries[lodIndex].metricType = "maxScreenThreshold"
         THEN Quotient(span, entries[lodIndex].maxError, FALSE)
         ELSE metersPerPixel)

\* A computation that consults lodSelection when the layer's metric type is
\* not a screen threshold.
MetersPerPixel_FallsBackToLodSelection(data, span) ==
  LET m == IF data.lodThreshold # 0
              /\ data.layerMetricType \in {"maxScreenThresholdSQ", "maxScreenThreshold"}
           THEN Quotient(span, data.lodThreshold,
                         data.layerMetricType = "maxScreenThresholdSQ")
           ELSE IF data.lodSelection.defined
           THEN LodSelectionLoop(span, data.lodSelection.entries, 1, Infinity)
           ELSE Infinity
  IN IF m = Infinity THEN Quotient(100000, 1, FALSE) ELSE m

\* The meters per pixel required to pop the next level of detail.
MetersPerPixel(data, span) ==
  LET m == IF data.lodThreshold # 0
           THEN IF data.layerMetricType = "maxScreenThresholdSQ"
                THEN Quotient(span, data.lodThreshold, TRUE)
                ELSE IF data.layerMetricType = "maxScreenThreshold"
                THEN Quotient(span, data.lodThreshold, FALSE)
                ELSE Infinity
           ELSE IF data.lodSelection.defined
           THEN LodSelectionLoop(span, data.lodSelection.entries, 1, Infinity)
           ELSE Infinity
  IN IF m = Infinity THEN Quotient(100000, 1, FALSE) ELSE m

\* _create3DTileDefinition() on a node with metadata data.
Create3DTileDefinition(data) ==
  IF ~data.obb.defined /\ ~data.mbs.defined
  THEN UndefinedDefinition
  ELSE LET m == MetersPerPixel(data, SpanOf(data.obb, data.mbs))
       IN [defined |-> TRUE,
           boundingVolume |-> BoundingVolume(data.obb, data.mbs),
           refine |-> "REPLACE",
           geometricError |-> Quotient(m.num * 16, m.den, m.root)]

\* The metadata of a loaded node.
InitTileDef ==
  /\ tdata \in [obb : Obbs, mbs : Mbss, lodThreshold : LodThresholds,
                layerMetricType : LayerMetricTypes,
                lodSelection : {[defined |-> FALSE, entries |-> <<>>]} \cup
                               {[defined |-> TRUE, entries |-> l] : l \in LodLists(MaxLod)}]
  /\ tdef = NoDefinition

\* The node's tile definition is made.
MakeDefinition ==
  /\ tdef = NoDefinition
  /\ tdef' = Create3DTileDefinition(tdata)
  /\ UNCHANGED <<tdata, notTileDefVars>>

NextTileDef == MakeDefinition

InitSpecTileDef ==
  /\ mode = "legacy"
  /\ InitNode
  /\ isI3S = TRUE
  /\ payloads = [nGeom |-> 0, nFeat |-> 0]
  /\ IdleContent
  /\ IdleProvider
  /\ IdleJson
  /\ InitTileDef
  /\ IdleGeoid
  /\ IdleShow
  /\ IdleExtent
  /\ IdlePlace

\* The tile definitions of nodes with every metadata of InitTileDef.
SpecTileDef == InitSpecTileDef /\ [][NextTileDef]_vars

--------------------------------------------------------------------------
\* Sampling a geoid tile (sampleGeoid).  The native extent of a tile spans
\* CellSize native units per raster cell from its west and south edge, so
\* that x and y are multiples of 1 / CellSize, and heights are kept times
\* CellSize * CellSize: every quotient of the source is exact.

CellSize == 2

\* A raster of the given size whose stored values are base, base + 1, ...
Raster(width, height, base) == [k \in 1..(width * height) |-> base + k - 1]

\* The tiles: rasters of 2 to MaxGrid columns and rows.
GeoidTiles ==
  { [width |-> w, height |-> h, buffer |-> Raster(w, h, base),
     scale |-> s, offset |-> o, west |-> west, south |-> 0] :
       w \in 2..MaxGrid, h \in 2..MaxGrid, base \in {0, 4},
       s \in {1, 3}, o \in {0, 5}, west \in {0, -6} }

\* The native points of a tile that lie on its raster's half-cell grid,
\* its edges included.
SamplePoints(tile) ==
  { [x |-> tile.west + i, y |-> tile.south + j] :
      i \in 0..(CellSize * (tile.width - 1)),
      j \in 0..(CellSize * (tile.height - 1)) }

\* sampleMap(u, v, width, data): the address read.
sampleMap(u, v, width) == u + v * width

\* xNext and yNext: xi < width ? xi + 1 : xi.
NextIndex(i, size) == IF i < size THEN i + 1 ELSE i

\* bilinearInterpolate with tx and ty in units of 1 / CellSize; the result
\* is the height times CellSize * CellSize.
bilinearInterpolate(tx, ty, h00, h10, h01, h11) ==
  LET a == h00 * (CellSize - tx) + h10 * tx
      b == h01 * (CellSize - tx) + h11 * tx
  IN a * (CellSize - ty) + b * ty

\* sampleGeoid(sampleX, sampleY, geoidData).  A read outside the buffer
\* yields undefined, and the arithmetic on it NaN.
sampleGeoid(sampleX, sampleY, geoidData) ==
  LET x == sampleX - geoidData.west
      y == sampleY - geoidData.south
      xi == x \div CellSize
      yi0 == y \div CellSize
      tx == x % CellSize
      ty == y % CellSize
      xNext == NextIndex(xi, geoidData.width)
      yNext0 == NextIndex(yi0, geoidData.height)
      yi == geoidData.height - 1 - yi0
      yNext == geoidData.height - 1 - yNext0
      reads == << sampleMap(xi, yi, geoidData.width),
                  sampleMap(xNext, yi, geoidData.width),
                  sampleMap(xi, yNext, geoidData.width),
                  sampleMap(xNext, yNext, geoidData.width) >>
      inside(a) == a >= 0 /\ a < Len(geoidData.buffer)
      h(k) == geoidData.buffer[reads[k] + 1]
  IN IF \A k \in 1..4 : inside(reads[k])
     THEN [made |-> TRUE, nan |-> FALSE, reads |-> reads,
           value4 |-> bilinearInterpolate(tx, ty, h(1), h(2), h(3), h(4))
                        * geoidData.scale
                      + CellSize * CellSize * geoidData.offset]
     ELSE [made |-> TRUE, nan |-> TRUE, reads |-> reads, value4 |-> 0]

\* A geoid tile and a native point on it.
InitGeoid ==
  /\ gtile \in GeoidTiles
  /\ gpoint \in SamplePoints(gtile)
  /\ gout = NoSample

\* The point is sampled.
SampleGeoid ==
  /\ ~gout.made
  /\ gout' = sampleGeoid(gpoint.x, gpoint.y, gtile)
  /\ UNCHANGED <<gtile, gpoint, notGeoidVars>>

NextGeoid == SampleGeoid

InitSpecGeoid ==
  /\ mode = "legacy"
  /\ InitNode
  /\ isI3S = TRUE
  /\ payloads = [nGeom |-> 0, nFeat |-> 0]
  /\ IdleContent
  /\ IdleProvider
  /\ IdleJson
  /\ IdleTileDef
  /\ InitGeoid
  /\ IdleShow
  /\ IdleExtent
  /\ IdlePlace

\* Samples of geoid tiles at the points of their half-cell grids.
SpecGeoid == InitSpecGeoid /\ [][NextGeoid]_vars

--------------------------------------------------------------------------
\* The provider's show property.

\* provider.show = value: the value is assigned to the show property of
\* every layer's tileset that exists, ready or not.
SetShow(value) ==
  /\ ~pdestroyed
  /\ Len(pshows) < MaxShows
  /\ value \in BOOLEAN
  /\ pshows' = Append(pshows,
                      [value |-> value,
                       existing |-> {l \in 1..Len(layers) : TilesetDefined(layers[l])}])
  /\ layers' = [l \in 1..Len(layers) |->
                  IF ShowReaches(layers[l])
                  THEN [layers[l] EXCEPT !.show = IF value THEN "true" ELSE "false"]
                  ELSE layers[l]]
  /\ UNCHANGED <<pdoc, geoid, pready, pdestroyed, destroyCalls, pcalls,
                 nodeVars, contentVars, jsonVars, tileDefVars, geoidVars, extentVars,
                 placeVars>>

NextShow ==
  \/ \E k \in 1..MaxLayers : DocLoaded(k)
  \/ \E e \in Errors : DocFailed(e)
  \/ \E l \in 1..Len(layers) : LayerTilesetCreated(l)
  \/ \E l \in 1..Len(layers) : LayerLoaded(l)
  \/ \E l \in 1..Len(layers) : \E e \in Errors : LayerFailed(l, e)
  \/ GeoidLoaded
  \/ ProviderReady
  \/ Destroy
  \/ \E value \in BOOLEAN : SetShow(value)

\* The provider's bootstrap, destroy and assignments of show.
SpecShow == InitSpecProvider /\ [][NextShow]_vars

--------------------------------------------------------------------------
\* The provider's extent (I3SDataProvider.prototype._computeExtent).

\* layer._extent of the layers: the rectangles of the tests, one that
\* contains another, and an undefined one.
LayerExtents ==
  { NoExtent,
    [defined |-> TRUE, west |-> -1, south |-> 0, east |-> 1, north |-> 2],
    [defined |-> TRUE, west |-> 3, south |-> 1, east |-> 4, north |-> 3],
    [defined |-> TRUE, west |-> -2, south |-> -1, east |-> 5, north |-> 1] }

Min2(a, b) == IF a < b THEN a ELSE b

\* The union of two rectangles.
RectangleUnion(a, b) ==
  [defined |-> TRUE, west |-> Min2(a.west, b.west), south |-> Min2(a.south, b.south),
   east |-> Max2(a.east, b.east), north |-> Max2(a.north, b.north)]

\* A loop that stops at the first layer lacking an extent.
RECURSIVE ExtentLoop_StopsAtGap(_, _, _)
ExtentLoop_StopsAtGap(list, layerIndex, rectangle) ==
  IF layerIndex > Len(list) \/ ~list[layerIndex].defined THEN rectangle
  ELSE ExtentLoop_StopsAtGap(list, layerIndex + 1,
         IF ~rectangle.defined THEN list[layerIndex]
         ELSE RectangleUnion(rectangle, list[layerIndex]))

\* The loop over the layers from layerIndex on: a layer with an extent
\* starts or widens the rectangle, a layer without one is skipped.
RECURSIVE ExtentLoop(_, _, _)
ExtentLoop(list, layerIndex, rectangle) ==
  IF layerIndex > Len(list) THEN rectangle
  ELSE ExtentLoop(list, layerIndex + 1,
         IF ~list[layerIndex].defined THEN rectangle
         ELSE IF ~rectangle.defined THEN list[layerIndex]
         ELSE RectangleUnion(rectangle, list[layerIndex]))

\* The extent _computeExtent leaves on a provider whose extent was old.
ComputeExtentOf(list, old) ==
  LET rectangle == ExtentLoop(list, 1, NoExtent)
  IN IF rectangle.defined THEN rectangle ELSE old

\* A provider with up to MaxExtents layers, whose extent is undefined or
\* was set before.
InitExtent ==
  /\ extents \in UNION { [1..k -> LayerExtents] : k \in 0..MaxExtents }
  /\ pextent \in {NoExtent,
                  [defined |-> TRUE, west |-> 0, south |-> 0, east |-> 1, north |-> 1]}
  /\ computed = [done |-> FALSE, former |-> NoExtent]

\* _computeExtent().
ComputeExtent ==
  /\ ~computed.done
  /\ computed' = [done |-> TRUE, former |-> pextent]
  /\ pextent' = ComputeExtentOf(extents, pextent)
  /\ UNCHANGED <<extents, nodeVars, contentVars, providerVars, jsonVars,
                 tileDefVars, geoidVars, showVars, placeVars>>

NextExtent == ComputeExtent

InitSpecExtent ==
  /\ mode = "legacy"
  /\ InitNode
  /\ isI3S = TRUE
  /\ payloads = [nGeom |-> 0, nFeat |-> 0]
  /\ IdleContent
  /\ IdleProvider
  /\ IdleJson
  /\ IdleTileDef
  /\ IdleGeoid
  /\ IdleShow
  /\ InitExtent
  /\ IdlePlace

\* The extents computed for every list of layer extents.
SpecExtent == InitSpecExtent /\ [][NextExtent]_vars

--------------------------------------------------------------------------
\* Placement: the position, the geoid offset and the transforms of
\* _create3DTileDefinition, and the decode request of
\* _createI3SDecoderTask, for a root and its child.

MaxGeoidTiles == 2

\* Heights are kept in units of 1 / (CellSize * CellSize), the unit of the
\* samples.
HeightUnit == CellSize * CellSize

\* The geoid tiles of the list, by raster and native extent.
PlaceTiles ==
  { [width |-> 3, height |-> 3, buffer |-> Raster(3, 3, 0), scale |-> 1,
     offset |-> 0, west |-> 0, south |-> 0],
    [width |-> 2, height |-> 2, buffer |-> Raster(2, 2, 4), scale |-> 3,
     offset |-> 5, west |-> 1, south |-> 1] }

GeoidLists ==
  {NoGeoidList} \cup
  { [defined |-> TRUE, tiles |-> l] :
      l \in UNION { [1..k -> PlaceTiles] : k \in 0..MaxGeoidTiles } }

\* tile.nativeExtent, which the raster spans at CellSize units per cell.
NativeExtent(tile) ==
  [west |-> tile.west, south |-> tile.south,
   east |-> tile.west + CellSize * (tile.width - 1),
   north |-> tile.south + CellSize * (tile.height - 1)]

\* tile.projection.project(geoPosition): the native coordinates of a
\* position given by longitude and latitude.
Project(tile, lon, lat) == [x |-> lon, y |-> lat]

\* The test of lines 385-390: the projected position lies strictly inside
\* the tile's native extent.
StrictlyInside(p, extent) ==
  /\ p.x > extent.west
  /\ p.x < extent.east
  /\ p.y > extent.south
  /\ p.y < extent.north

\* geoPosition.height += sampleGeoid(...); NaN stays NaN.
AddSample(h, s) == [h4 |-> h.h4 + s.value4, nan |-> h.nan \/ s.nan]

\* A loop that goes on after the first containing tile.
RECURSIVE GeoidOffsetLoop_NoBreak(_, _, _, _, _)
GeoidOffsetLoop_NoBreak(geoidDataList, i, lon, lat, h) ==
  IF i > Len(geoidDataList) THEN h
  ELSE LET tile == geoidDataList[i]
           projectedPos == Project(tile, lon, lat)
       IN GeoidOffsetLoop_NoBreak(geoidDataList, i + 1, lon, lat,
            IF StrictlyInside(projectedPos, NativeExtent(tile))
            THEN AddSample(h, sampleGeoid(projectedPos.x, projectedPos.y, tile))
            ELSE h)

\* The loop over _geoidDataList from index i on, with its break.
RECURSIVE GeoidOffsetLoop(_, _, _, _, _)
GeoidOffsetLoop(geoidDataList, i, lon, lat, h) ==
  IF i > Len(geoidDataList) THEN h
  ELSE LET tile == geoidDataList[i]
           projectedPos == Project(tile, lon, lat)
       IN IF StrictlyInside(projectedPos, NativeExtent(tile))
          THEN AddSample(h, sampleGeoid(projectedPos.x, projectedPos.y, tile))
          ELSE GeoidOffsetLoop(geoidDataList, i + 1, lon, lat, h)

\* geoPosition.height after lines 380-395, for a center <<lon, lat, height>>.
GeoHeight(list, center) ==
  LET h == [h4 |-> HeightUnit * center[3], nan |-> FALSE]
  IN IF list.defined
     THEN GeoidOffsetLoop(list.tiles, 1, center[1], center[2], h)
     ELSE h

\* Matrix3 and Matrix4 are stored by columns, as in the host library:
\* m[column * 3 + row + 1] and m[column * 4 + row + 1].
Matrix3Identity == <<1, 0, 0, 0, 1, 0, 0, 0, 1>>
Matrix4Identity == <<1, 0, 0, 0, 0, 1, 0, 0, 0, 0, 1, 0, 0, 0, 0, 1>>

\* The quaternions of the model, by name, and Matrix3.fromQuaternion of
\* each: the identity, a quarter turn about z, a quarter turn about x.
Quaternions == {"qI", "qZ", "qX"}
Matrix3FromQuaternion(q) ==
  IF q = "qZ" THEN <<0, 1, 0, -1, 0, 0, 0, 0, 1>>
  ELSE IF q = "qX" THEN <<1, 0, 0, 0, 0, 1, 0, -1, 0>>
  ELSE Matrix3Identity

\* Matrix3.fromRotationX(-CesiumMath.PI_OVER_TWO)
AxisFlipRotation == <<1, 0, 0, 0, 0, -1, 0, 1, 0>>

\* Matrix3.multiply(left, right)
Matrix3Multiply(left, right) ==
  [k \in 1..9 |->
     LET c == (k - 1) \div 3
         r == (k - 1) % 3
     IN left[r + 1] * right[c * 3 + 1] + left[3 + r + 1] * right[c * 3 + 2]
          + left[6 + r + 1] * right[c * 3 + 3]]

Matrix3Determinant(m) ==
  m[1] * (m[5] * m[9] - m[8] * m[6]) - m[4] * (m[2] * m[9] - m[8] * m[3])
    + m[7] * (m[2] * m[6] - m[5] * m[3])

\* Matrix3.inverse(m): the adjugate over the determinant, which is 1 or -1
\* for the matrices of the model.
Matrix3Inverse(m) ==
  LET d == Matrix3Determinant(m)
      e(r, c) == m[c * 3 + r + 1]
      cof(r, c) ==
        LET r1 == (r + 1) % 3
            r2 == (r + 2) % 3
            c1 == (c + 1) % 3
            c2 == (c + 2) % 3
        IN e(r1, c1) * e(r2, c2) - e(r1, c2) * e(r2, c1)
  IN [k \in 1..9 |->
        LET c == (k - 1) \div 3
            r == (k - 1) % 3
        IN cof(c, r) * d]

\* Matrix4.multiply(left, right)
Matrix4Multiply(left, right) ==
  [k \in 1..16 |->
     LET c == (k - 1) \div 4
         r == (k - 1) % 4
     IN left[r + 1] * right[c * 4 + 1] + left[4 + r + 1] * right[c * 4 + 2]
          + left[8 + r + 1] * right[c * 4 + 3] + left[12 + r + 1] * right[c * 4 + 4]]

\* Matrix4.inverse(m) for a matrix whose last column is (0, 0, 0, 1): the
\* inverse of the upper left block, and the last row times it, negated.
Matrix4Inverse(m) ==
  LET a == [k \in 1..9 |-> m[((k - 1) \div 3) * 4 + ((k - 1) % 3) + 1]]
      ai == Matrix3Inverse(a)
      b(c) == m[c * 4 + 4]
  IN [k \in 1..16 |->
        LET c == (k - 1) \div 4
            r == (k - 1) % 4
        IN IF c = 3 THEN (IF r = 3 THEN 1 ELSE 0)
           ELSE IF r = 3
           THEN 0 - (b(0) * ai[c * 3 + 1] + b(1) * ai[c * 3 + 2] + b(2) * ai[c * 3 + 3])
           ELSE ai[c * 3 + r + 1]]

\* new Matrix4(...) of lines 490-507, whose arguments are given by rows: the
\* rows are the columns of the rotation, and the last row is the position.
GlobalTransform(rotationMatrix, position) ==
  [k \in 1..16 |->
     LET c == (k - 1) \div 4
         r == (k - 1) % 4
     IN IF r < 3 THEN (IF c < 3 THEN rotationMatrix[r * 3 + c + 1] ELSE 0)
        ELSE (IF c < 3 THEN position[c + 1] ELSE 1)]

\* Ellipsoid.WGS84.cartographicToCartesian: a one-to-one map of longitude,
\* latitude and height to a Cartesian position.
CartographicToCartesian(lon, lat, h4) == <<lon + h4, lat, h4 - lon>>

\* Transforms.headingPitchRollQuaternion(position, hpr) with a zero hpr: the
\* orientation of the local frame at the position.
HeadingPitchRollQuaternion(position) ==
  IF position[2] > 2 THEN "qX" ELSE "qZ"

\* A local transform with the factors exchanged.
LocalTransform_ParentInverseFirst(globalTransform, parent) ==
  IF parent.globalTransform # <<>>
  THEN Matrix4Multiply(parent.inverseGlobalTransform, globalTransform)
  ELSE globalTransform

\* Lines 514-522: the clone of the global transform, replaced by its product
\* with the parent's inverse when the parent holds a global transform.
LocalTransform(globalTransform, parent) ==
  IF parent.globalTransform # <<>>
  THEN Matrix4Multiply(globalTransform, parent.inverseGlobalTransform)
  ELSE globalTransform

\* The transform array of the definition (lines 541-558): the local
\* transform read by rows.
TransformArray(localTransform) ==
  [k \in 1..16 |-> localTransform[((k - 1) % 4) * 4 + ((k - 1) \div 4) + 1]]

\* The bounding data of a node: obb.center and obb.quaternion, and the
\* center mbs[0..2].
NoObb == [defined |-> FALSE, center |-> <<0, 0, 0>>, quaternion |-> "qI"]
NoMbs == [defined |-> FALSE, center |-> <<0, 0, 0>>]
PlaceData ==
  { [obb |-> [defined |-> TRUE, center |-> c, quaternion |-> q], mbs |-> NoMbs] :
      c \in {<<2, 2, 10>>, <<1, 2, 0>>}, q \in {"qZ", "qX"} }
  \cup { [obb |-> NoObb, mbs |-> [defined |-> TRUE, center |-> c]] :
           c \in {<<2, 2, 7>>, <<5, 5, 3>>} }
  \cup { [obb |-> [defined |-> TRUE, center |-> <<0, 2, 1>>, quaternion |-> "qI"],
          mbs |-> [defined |-> TRUE, center |-> <<2, 2, 7>>]],
         [obb |-> NoObb, mbs |-> NoMbs] }

\* No definition made yet; the definition a node without bounding data gets.
UnmadePlacement ==
  [made |-> FALSE, defined |-> FALSE, height |-> [h4 |-> 0, nan |-> FALSE],
   transform |-> <<>>]
UndefinedPlacement == [UnmadePlacement EXCEPT !.made = TRUE]

\* A node as its constructor leaves it (lines 63-65); parent 0 is the layer.
PlaceNode(parent, data) ==
  [parent |-> parent, data |-> data, globalTransform |-> <<>>,
   inverseGlobalTransform |-> <<>>, inverseRotationMatrix |-> <<>>,
   definition |-> UnmadePlacement]

\* this._parent of node n: the layer holds no transforms and no bounding data.
PlaceParent(n) ==
  IF n = 0 \/ pnodes[n].parent = 0
  THEN PlaceNode(0, [obb |-> NoObb, mbs |-> NoMbs])
  ELSE pnodes[pnodes[n].parent]

\* The center the position is taken from (lines 370-378, 581-589).
CenterOf(data) ==
  IF data.obb.defined THEN data.obb.center ELSE data.mbs.center

\* _create3DTileDefinition() on node n: the node after it, with the
\* definition returned.
Create3DTilePlacement(n) ==
  LET node == pnodes[n]
      data == node.data
  IN IF ~data.obb.defined /\ ~data.mbs.defined
     THEN [node EXCEPT !.definition = UndefinedPlacement]
     ELSE LET center == CenterOf(data)
              height == GeoHeight(glist, center)
              position == CartographicToCartesian(center[1], center[2], height.h4)
              orientation == IF data.obb.defined THEN data.obb.quaternion
                             ELSE HeadingPitchRollQuaternion(position)
              rotationMatrix == Matrix3FromQuaternion(orientation)
              inverseRotationMatrix == Matrix3Inverse(rotationMatrix)
              globalTransform == GlobalTransform(rotationMatrix, position)
              inverseGlobalTransform == Matrix4Inverse(globalTransform)
              localTransform == LocalTransform(globalTransform, PlaceParent(n))
          IN [node EXCEPT !.globalTransform = globalTransform,
                          !.inverseGlobalTransform = inverseGlobalTransform,
                          !.inverseRotationMatrix = inverseRotationMatrix,
                          !.definition = [made |-> TRUE, defined |-> TRUE,
                                          height |-> height,
                                          transform |-> TransformArray(localTransform)]]

\* A geometry whose _parent is the parent of the node that made it.
GeometryParent_TreeParent(n) == pnodes[n].parent

\* geometryData._parent for a geometry of node n: the node that constructed
\* it with new I3SGeometry(this, uri).
GeometryParent(n) == n

NoTask ==
  [made |-> FALSE, threw |-> FALSE,
   cartographicCenter |-> <<0, 0, 0>>, cartesianCenter |-> <<0, 0, 0>>,
   parentRotation |-> <<>>]

\* The payload _createI3SDecoderTask builds for the first geometry of node
\* n; Matrix3.multiply throws on an undefined matrix.
I3SDecoderTask(n) ==
  LET g == GeometryParent(n)
      parent == IF g = 0 THEN PlaceParent(0) ELSE pnodes[g]
      parentData == parent.data
      parentRotationInverseMatrix == parent.inverseRotationMatrix
      c == IF parentData.obb.defined \/ parentData.mbs.defined
           THEN CenterOf(parentData) ELSE <<0, 0, 0>>
  IN IF parentRotationInverseMatrix = <<>>
     THEN [NoTask EXCEPT !.made = TRUE, !.threw = TRUE]
     ELSE [made |-> TRUE, threw |-> FALSE,
           cartographicCenter |-> c,
           cartesianCenter |-> CartographicToCartesian(c[1], c[2], HeightUnit * c[3]),
           parentRotation |-> Matrix3Multiply(AxisFlipRotation,
                                              parentRotationInverseMatrix)]

\* A root and its child with their metadata loaded, and the geoid list.
InitPlace ==
  /\ \E d1, d2 \in PlaceData : pnodes = <<PlaceNode(0, d1), PlaceNode(1, d2)>>
  /\ glist \in GeoidLists
  /\ ptasks = <<NoTask, NoTask>>

\* The definition of node n is made: of the root by the layer, of the child
\* by its load(), which runs once the root has its tile.
MakePlacement(n) ==
  /\ n \in 1..Len(pnodes)
  /\ ~pnodes[n].definition.made
  /\ pnodes[n].parent # 0 => pnodes[pnodes[n].parent].definition.defined
  /\ pnodes' = [pnodes EXCEPT ![n] = Create3DTilePlacement(n)]
  /\ UNCHANGED <<glist, ptasks, notPlaceVars>>

\* _createContentURL of node n, whose tile exists, builds the decode request.
CreateI3SDecoderTask(n) ==
  /\ n \in 1..Len(pnodes)
  /\ pnodes[n].definition.defined
  /\ ~ptasks[n].made
  /\ ptasks' = [ptasks EXCEPT ![n] = I3SDecoderTask(n)]
  /\ UNCHANGED <<pnodes, glist, notPlaceVars>>

NextPlace ==
  \/ \E n \in 1..Len(pnodes) : MakePlacement(n)
  \/ \E n \in 1..Len(pnodes) : CreateI3SDecoderTask(n)

InitSpecPlace ==
  /\ mode = "legacy"
  /\ InitNode
  /\ isI3S = TRUE
  /\ payloads = [nGeom |-> 0, nFeat |-> 0]
  /\ IdleContent
  /\ IdleProvider
  /\ IdleJson
  /\ IdleTileDef
  /\ IdleGeoid
  /\ IdleShow
  /\ IdleExtent
  /\ InitPlace

\* The placement of a root and its child under every geoid list.
SpecPlace == InitSpecPlace /\ [][NextPlace]_vars

--------------------------------------------------------------------------
\* The continuations of started content requests that can still run.
Progress ==
  \/ \E r \in 1..Len(reqs) : DataLoaded(r) \/ DataFailed(r) \/ DecodeDone(r) \/ DecodeFailed(r)
  \/ \E r \in 1..Len(reqs) : \E accepted \in BOOLEAN : ScheduleTask(r, accepted)
  \/ \E h \in 1..Len(host) : HostReadyToProcess(h) \/ HostReady(h) \/ HostFailed(h)

\* The synthesis of request r has not settled.
InFlight(r) == reqs[r].phase \in {"data", "taskWait", "decoding"}

\* The requestContent calls that started a synthesis.
Started == {i \in 1..Len(rets) : rets[i] = 0}

\* C1: on an I3S tile every synthesis in flight belongs to the latest
\* request and the tile is loading, so at most one synthesis is in flight;
\* the requestContent calls made meanwhile started none.
C1_OneSynthesisInFlight ==
  isI3S =>
    /\ \A r \in 1..Len(reqs) : InFlight(r) => (ctile.isLoading /\ r = Len(reqs))
    /\ Cardinality({r \in 1..Len(reqs) : InFlight(r)}) <= 1
    /\ Len(reqs) = Cardinality(Started)

\* Two further requestContent calls were made while a synthesis was in flight.
C1_Witness ==
  /\ isI3S
  /\ Len(reqs) = 1
  /\ InFlight(1)
  /\ rets = <<0, 1, 1>>

\* C2 as claimed: _createContentURL runs at most once for the node and at
\* most one content locator is ever created.
C2_SynthesisAtMostOnce ==
  isI3S => (Len(reqs) <= 1 /\ urls <= 1)

\* C2 amended: _createContentURL runs once per started content request, a
\* request starts only when every earlier one has completed or failed, each
\* run creates at most one locator, and _glbURL is the latest one created.
C2_SynthesisOncePerRequest ==
  isI3S =>
    /\ Len(reqs) = Cardinality(Started)
    /\ \A r \in 1..Len(reqs) : r < Len(reqs) =>
          (reqs[r].phase = "resolved" /\ reqs[r].deferReady = "resolved")
    /\ urls = Cardinality({r \in 1..Len(reqs) : reqs[r].url # 0})
    /\ \A r, q \in 1..Len(reqs) : (reqs[r].url # 0 /\ reqs[r].url = reqs[q].url) => r = q
    /\ cnode.glbURL = urls

\* A second request ran after the first had completed, and made a second locator.
C2_Witness ==
  /\ isI3S
  /\ Len(reqs) = 2
  /\ urls = 2
  /\ cnode.glbURL = 2

\* C5 as claimed: a synthesis whose decode dispatch the worker pool refused
\* completes without an error, assembles no glTF and creates no locator.
C5_RefusalIsPostponed ==
  \A r \in 1..Len(reqs) :
    reqs[r].refused =>
      /\ reqs[r].phase # "rejected"
      /\ ~reqs[r].assembled
      /\ reqs[r].url = 0

\* C6 as claimed: after a refused decode dispatch the tile does not stay
\* loading for ever: while it is loading, a continuation that can clear the
\* flag is still to run.
C6_RefusalIsRetryable ==
  (ctile.isLoading /\ \E r \in 1..Len(reqs) : reqs[r].refused) => ENABLED Progress

\* The calls the provider made on layer l's tileset if it forwarded exactly
\* the update calls made while that tileset was ready.
CallsWhileReady(l) ==
  LET sel == SelectSeq(pcalls, LAMBDA c : l \in c.ready)
  IN [i \in 1..Len(sel) |-> [method |-> sel[i].method, args |-> sel[i].args]]

\* C7: the calls a layer's tileset has received are exactly the update,
\* prePassesUpdate, postPassesUpdate and updateForPass calls made on the
\* provider while that tileset existed and was ready, each once and with
\* the provider call's arguments; a tileset that is undefined or not ready
\* received none of them.
C7_ForwardsOnlyToReadyTilesets ==
  \A l \in 1..Len(layers) : layers[l].calls = CallsWhileReady(l)

\* updateForPass was called on the layers of the tests: the ready tileset
\* received the call with both arguments and the other layers none.
C7_Witness ==
  /\ pdoc = "stubbed"
  /\ Len(pcalls) > 0
  /\ pcalls[1].method = "updateForPass"
  /\ pcalls[1].args = <<"frameState2", "passState1">>
  /\ layers[1].calls = <<>>
  /\ layers[2].calls = << [method |-> "updateForPass", args |-> <<"frameState2", "passState1">>] >>
  /\ layers[3].calls = <<>>

\* C8: a layer's tileset has been destroyed once if the provider is
\* destroyed and the layer has a tileset, and never otherwise, however
\* often destroy() was called; the provider is destroyed exactly when
\* destroy() has been called.
C8_DestroysEachTilesetOnce ==
  /\ \A l \in 1..Len(layers) :
        layers[l].destroys = IF pdestroyed /\ TilesetDefined(layers[l]) THEN 1 ELSE 0
  /\ pdestroyed <=> destroyCalls > 0

\* destroy() was called twice on the layers of the tests.
C8_Witness ==
  /\ pdoc = "stubbed"
  /\ destroyCalls = 2
  /\ layers[1].destroys = 1
  /\ layers[2].destroys = 1
  /\ layers[3].destroys = 0

\* C9: the provider is ready, and its readiness promise resolved, only
\* when the service document has loaded, every layer's root node has
\* loaded and has its tile, and the geoid load has completed.
C9_ReadyOnlyAfterAllLoads ==
  (pready.ready \/ pready.promise.state = "resolved") =>
    /\ pready.ready /\ pready.promise.state = "resolved"
    /\ pdoc = "resolved"
    /\ \A l \in 1..Len(layers) : layers[l].phase = "loaded"
    /\ geoid.state = "done"

\* A provider with two layers and a geoid source has become ready.
C9_Witness ==
  /\ pready.ready
  /\ Len(layers) = 2
  /\ geoid.configured

--------------------------------------------------------------------------
\* The tiles of the children of node n, in the order of n's children list.
ChildTiles(n) == [i \in 1..Len(nodes[n].children) |-> nodes[nodes[n].children[i]].tile]

\* C3: whenever a node's tile has children, every child node that
\* _loadChildren constructed for the node has finished loading and has a
\* tile: no child tile is appended while a sibling's load is pending.
C3_ChildrenOnlyAfterAllLoads ==
  \A n \in NodeIds :
    (nodes[n].tile # 0 /\ tiles[nodes[n].tile].children # <<>>) =>
      \A i \in 1..Len(nodes[n].children) :
        /\ loadP[nodes[n].children[i]].state = "resolved"
        /\ nodes[nodes[n].children[i]].tile # 0

\* Two children have loaded, in some order, and their tiles were appended.
C3_Witness ==
  \E n \in NodeIds :
    /\ nodes[n].tile # 0
    /\ Len(tiles[nodes[n].tile].children) = 2
    /\ Len(nodes[n].children) = 2

\* C4: every _loadChildren call on a node returns the promise the first
\* call returned, the node's children list holds one node per declared
\* child reference, and the node's tile's children are either still empty
\* or hold the tile of each child exactly once.
C4_LoadChildrenIdempotent ==
  \A n \in NodeIds :
    Len(returned[n]) > 0 =>
      /\ \A i \in 1..Len(returned[n]) : returned[n][i] = returned[n][1]
      /\ Len(nodes[n].children) = Len(nodes[n].data.children)
      /\ \A i, j \in 1..Len(nodes[n].children) :
            nodes[n].children[i] = nodes[n].children[j] => i = j
      /\ tiles[nodes[n].tile].children \in {<<>>, ChildTiles(n)}
      /\ promises[returned[n][1]].state = "resolved" =>
            tiles[nodes[n].tile].children = ChildTiles(n)
      /\ \A i, j \in 1..Len(tiles[nodes[n].tile].children) :
            tiles[nodes[n].tile].children[i] = tiles[nodes[n].tile].children[j] => i = j

\* _loadChildren was called again after the children of a node with two
\* declared children had been appended.
C4_Witness ==
  \E n \in NodeIds :
    /\ Len(returned[n]) = MaxCalls
    /\ promises[returned[n][1]].state = "resolved"
    /\ Len(tiles[nodes[n].tile].children) = 2

\* C10: when the metadata fetch or the node-page lookup of a node fails,
\* the promise load() returned is rejected with that same error, the node
\* has no tile and no metadata, and the request was issued only once.
C10_LoadFailurePropagates ==
  \A n \in NodeIds :
    fetches[n].state = "rejected" =>
      /\ loadP[n] = Rejected(fetches[n].reason)
      /\ nodes[n].tile = 0
      /\ ~nodes[n].data.defined
      /\ fetches[n].issued = 1

\* A child's fetch failed with the service error while its parent waits.
C10_Witness ==
  \E n \in NodeIds :
    /\ ~nodes[n].isRoot
    /\ fetches[n].state = "rejected"
    /\ fetches[n].reason = "EToken"
    /\ loadP[n].state = "rejected"

--------------------------------------------------------------------------
\* The body, by name, that a _loadJson call received.
BodyOf(c) == CHOOSE b \in JsonBodies : b.name = jcalls[c].body

\* C11: a _loadJson call whose fetch returned a body rejects exactly when
\* the body carries an error envelope, and then with the embedded error
\* object itself; a body without envelope resolves with the body itself.
C11_LoadJsonRejectsEnvelope ==
  \A c \in 1..Len(jcalls) :
    jcalls[c].body # "none" =>
      IF BodyOf(c).error # "none"
      THEN jcalls[c].state = "rejected" /\ jcalls[c].value = BodyOf(c).error
      ELSE jcalls[c].state = "resolved" /\ jcalls[c].value = jcalls[c].body

\* One fetch returned the invalid-token envelope and another a plain document.
C11_Witness ==
  /\ Len(jcalls) = 2
  /\ jcalls[1].body = "envelope498"
  /\ jcalls[1].state = "rejected"
  /\ jcalls[2].body = "json1"
  /\ jcalls[2].state = "resolved"

--------------------------------------------------------------------------
\* C12: the root node has level 0 and every other node has the level of
\* its parent plus one, however its parent's metadata referenced it.
C12_LevelIsParentPlusOne ==
  \A n \in NodeIds :
    IF nodes[n].isRoot
    THEN nodes[n].level = 0
    ELSE /\ nodes[n].parent \in NodeIds
         /\ nodes[n].level = nodes[nodes[n].parent].level + 1

\* A grandchild of the root was constructed.
C12_Witness ==
  \E n \in NodeIds :
    /\ ~nodes[n].isRoot
    /\ ~nodes[nodes[n].parent].isRoot
    /\ nodes[n].level = 2

--------------------------------------------------------------------------
\* C13: a tile definition has exactly one of box and sphere: the box of
\* the half sizes whenever the node declares an oriented box, also when it
\* declares a sphere too, and the sphere of the radius only when the node
\* declares a sphere and no oriented box.
C13_ExactlyOneBoundingVolume ==
  tdef.defined =>
    LET bv == tdef.boundingVolume
        h == tdata.obb.halfSize
    IN /\ (bv.box # <<>>) # (bv.sphere # <<>>)
       /\ tdata.obb.defined =>
            (bv.box = <<0, 0, 0, h[1], 0, 0, 0, h[2], 0, 0, 0, h[3]>> /\ bv.sphere = <<>>)
       /\ ~tdata.obb.defined =>
            (tdata.mbs.defined /\ bv.sphere = <<0, 0, 0, tdata.mbs.radius>> /\ bv.box = <<>>)

\* A definition was made for a node that declares both an oriented box and
\* a sphere.
C13_Witness ==
  /\ tdef.defined
  /\ tdata.obb.defined
  /\ tdata.mbs.defined
  /\ tdef.boundingVolume.box # <<>>

\* The largest half size of the node's oriented box.
MaxHalfSize ==
  CHOOSE x \in {tdata.obb.halfSize[i] : i \in 1..3} :
    \A i \in 1..3 : x >= tdata.obb.halfSize[i]

\* The maxScreenThreshold entries of the node's lodSelection list.
ScreenThresholdEntries ==
  SelectSeq(tdata.lodSelection.entries, LAMBDA e : e.metricType = "maxScreenThreshold")

\* C14: for a node without lodThreshold whose lodSelection list has a
\* maxScreenThreshold entry (the last one when it has several), the
\* geometric error is 16 * (2 * the largest half size, or 2 * the radius)
\* / that entry's maxError, the entries of other metric types change
\* nothing wherever they stand, and half sizes [20000, 20000, 500] with the
\* entries {maxScreenThresholdSQ, 4}, {maxScreenThreshold, 2} give 320000.
C14_UsesMaxScreenThresholdEntry ==
  (/\ tdef.defined
   /\ tdata.lodThreshold = 0
   /\ tdata.lodSelection.defined
   /\ ScreenThresholdEntries # <<>>) =>
    LET e == ScreenThresholdEntries[Len(ScreenThresholdEntries)]
        ge == tdef.geometricError
        extent == IF tdata.obb.defined THEN MaxHalfSize ELSE tdata.mbs.radius
    IN /\ ~ge.root
       /\ ge.den # 0
       /\ ge.num * e.maxError = 16 * (2 * extent) * ge.den
       /\ tdef = Create3DTileDefinition(
                   [tdata EXCEPT !.lodSelection.entries = ScreenThresholdEntries])
       /\ (/\ tdata.obb.defined
           /\ tdata.obb.halfSize = <<20000, 20000, 500>>
           /\ tdata.lodSelection.entries =
                << [metricType |-> "maxScreenThresholdSQ", maxError |-> 4],
                   [metricType |-> "maxScreenThreshold", maxError |-> 2] >>)
          => ge.num = 320000 * ge.den

\* The definition of the root node of the tests was made.
C14_Witness ==
  /\ tdef.defined
  /\ tdata.lodThreshold = 0
  /\ tdata.obb.defined
  /\ tdata.obb.halfSize = <<20000, 20000, 500>>
  /\ tdata.mbs.defined
  /\ tdata.lodSelection.entries =
       << [metricType |-> "maxScreenThresholdSQ", maxError |-> 4],
          [metricType |-> "maxScreenThreshold", maxError |-> 2] >>
  /\ tdef.geometricError = Quotient(640000, 2, FALSE)

--------------------------------------------------------------------------
\* The tiles whose i3sNode back-reference is node n.
TilesOf(n) == {t \in 1..Len(tiles) : tiles[t].i3sNode = n}

\* C15 as claimed: every node whose load() has resolved, root or not, has
\* one tile, and the tile's back-reference is the node.
C15_TileAfterEveryLoad ==
  \A n \in NodeIds :
    loadP[n].state = "resolved" =>
      /\ nodes[n].tile # 0
      /\ TilesOf(n) = {nodes[n].tile}

\* C15 amended: a node that is not the root has exactly one tile once its
\* load() has resolved; load() of the root constructs none, and the root
\* gets its tile only after its load, from the layer; a node never has had
\* more than one tile, and its tile's back-reference is the node.
C15_TileAfterNonRootLoad ==
  \A n \in NodeIds :
    /\ (loadP[n].state = "resolved" /\ ~nodes[n].isRoot) => nodes[n].tile # 0
    /\ TilesOf(n) = IF nodes[n].tile # 0 THEN {nodes[n].tile} ELSE {}
    /\ nodes[n].tile # 0 => loadP[n].state = "resolved"

\* A child has loaded and has its tile, below a root that has its tile.
C15_Witness ==
  \E n \in NodeIds :
    /\ ~nodes[n].isRoot
    /\ loadP[n].state = "resolved"
    /\ nodes[n].tile # 0
    /\ tiles[nodes[n].tile].i3sNode = n
    /\ nodes[1].tile # 0

\* Exactly one of paging index and resource locator is known of a node
\* whose load() has not settled.
OneKnownBeforeLoad(n) ==
  loadP[n].state \in {"new", "pending"} =>
    ((nodes[n].nodeIndex # -1) # (nodes[n].resource # <<>>))

\* C16 as claimed: exactly one of paging index and locator is known at
\* construction, and the locator is defined once load() has resolved.
C16_ResourceResolvedAfterLoad ==
  \A n \in NodeIds :
    /\ OneKnownBeforeLoad(n)
    /\ loadP[n].state = "resolved" => nodes[n].resource # <<>>

\* C16 amended: exactly one of paging index and locator is known at
\* construction; once load() has resolved the locator is defined for a
\* legacy node, a paged root and a paged node that declares a mesh, and
\* undefined for a paged node below the root that declares no mesh.
C16_ResourceResolvedUnlessMeshless ==
  \A n \in NodeIds :
    /\ OneKnownBeforeLoad(n)
    /\ loadP[n].state = "resolved" =>
         (nodes[n].resource = <<>> <=>
            (nodes[n].nodeIndex # -1 /\ ~nodes[n].isRoot /\ ~nodes[n].data.mesh))

\* A paged child with a mesh and a paged child without one have loaded.
C16_Witness ==
  \E n, m \in NodeIds :
    /\ nodes[n].nodeIndex # -1 /\ ~nodes[n].isRoot
    /\ loadP[n].state = "resolved"
    /\ nodes[n].data.mesh
    /\ nodes[n].resource # <<>>
    /\ nodes[m].nodeIndex # -1 /\ ~nodes[m].isRoot
    /\ loadP[m].state = "resolved"
    /\ ~nodes[m].data.mesh
    /\ nodes[m].resource = <<>>

--------------------------------------------------------------------------
\* The column and the row from the south of the sampled point, when it is
\* a grid point of the raster.
OnGrid ==
  /\ (gpoint.x - gtile.west) % CellSize = 0
  /\ (gpoint.y - gtile.south) % CellSize = 0
GridColumn == (gpoint.x - gtile.west) \div CellSize
GridRow == (gpoint.y - gtile.south) \div CellSize

\* C19 as claimed: the sample at a grid point, the east and north edges
\* included, is the value stored for that point (rows stored from the
\* north) times the scale plus the offset, and no read leaves the buffer.
C19_GridPointRoundTrip ==
  (gout.made /\ OnGrid) =>
    /\ ~gout.nan
    /\ gout.value4 =
         CellSize * CellSize *
           (gtile.buffer[GridColumn + (gtile.height - 1 - GridRow) * gtile.width + 1]
              * gtile.scale + gtile.offset)
    /\ \A k \in 1..4 : gout.reads[k] >= 0 /\ gout.reads[k] < Len(gtile.buffer)

--------------------------------------------------------------------------
\* Whether node c was constructed for the child reference ref of node n.
ConstructedFor(c, n, ref) ==
  /\ nodes[c].parent = n
  /\ ~nodes[c].isRoot
  /\ IF ref.t = "number"
     THEN nodes[c].nodeIndex = ref.n
     ELSE /\ nodes[c].nodeIndex = -1
          /\ nodes[c].resource =
               getDerivedResource(nodes[n].resource,
                                  TemplateSlash(defaultValue(HrefOf(ref), ref)))

\* C20: once a node's tile has children, it has one per child reference
\* of the node's metadata, and the i-th of them is the tile of the node
\* constructed for the i-th reference, in whatever order the loads completed.
C20_ChildrenInDeclarationOrder ==
  \A n \in NodeIds :
    (nodes[n].tile # 0 /\ tiles[nodes[n].tile].children # <<>>) =>
      LET ch == tiles[nodes[n].tile].children
          decl == nodes[n].data.children
      IN /\ Len(ch) = Len(decl)
         /\ \A i \in 1..Len(ch) :
              /\ ch[i] \in 1..Len(tiles)
              /\ ConstructedFor(tiles[ch[i]].i3sNode, n, decl[i])

\* The second declared child loaded before the first, and both tiles were
\* appended.
C20_Witness ==
  \E n \in NodeIds :
    /\ nodes[n].tile # 0
    /\ Len(tiles[nodes[n].tile].children) = 2
    /\ tiles[nodes[n].tile].children[1] > tiles[nodes[n].tile].children[2]

--------------------------------------------------------------------------
\* The value of a tileset's show property if every assignment of the
\* provider's show reached exactly the tilesets that existed then: the
\* last value assigned while the layer's tileset existed, or unset.
ShowWhileExisting(l) ==
  LET sel == SelectSeq(pshows, LAMBDA a : l \in a.existing)
  IN IF sel = <<>> THEN "unset"
     ELSE IF sel[Len(sel)].value THEN "true" ELSE "false"

Orderings(n) ==
  {f \in [1..n -> 1..n] : \A i, j \in 1..n : f[i] = f[j] => i = j}

\* The layer extents that are defined.
DefinedExtents == {extents[i] : i \in {j \in 1..Len(extents) : extents[j].defined}}

\* C18: the extent _computeExtent leaves is the union of the layers'
\* extents (least west and south, greatest east and north), layers
\* without extent being skipped; it is the same for every ordering of the
\* layers; and it is the provider's former extent when no layer has one.
C18_ExtentIsOrderIndependentUnion ==
  computed.done =>
    /\ DefinedExtents # {} =>
         /\ pextent.defined
         /\ \A r \in DefinedExtents :
              /\ pextent.west <= r.west /\ pextent.south <= r.south
              /\ pextent.east >= r.east /\ pextent.north >= r.north
         /\ \E r \in DefinedExtents : pextent.west = r.west
         /\ \E r \in DefinedExtents : pextent.south = r.south
         /\ \E r \in DefinedExtents : pextent.east = r.east
         /\ \E r \in DefinedExtents : pextent.north = r.north
    /\ \A f \in Orderings(Len(extents)) :
         ComputeExtentOf([i \in 1..Len(extents) |-> extents[f[i]]], computed.former)
           = pextent
    /\ DefinedExtents = {} => pextent = computed.former

\* The extent of the layers of the tests, two with an extent and one
\* without, was computed.
C18_Witness ==
  /\ computed.done
  /\ extents = << [defined |-> TRUE, west |-> -1, south |-> 0, east |-> 1, north |-> 2],
                  [defined |-> TRUE, west |-> 3, south |-> 1, east |-> 4, north |-> 3],
                  NoExtent >>
  /\ pextent = [defined |-> TRUE, west |-> -1, south |-> 0, east |-> 4, north |-> 3]

--------------------------------------------------------------------------
\* C21: a requestContent call on an I3S tile that is not loading sets the
\* loading flag, starts one synthesis with fresh deferreds and returns 0; a
\* call on a tile that is loading returns 1 and leaves the flag, the
\* deferreds, the requests and the node as they were.
C21_RequestWhileLoadingChangesNothing ==
  [][ (isI3S /\ rets' # rets) =>
        IF ctile.isLoading
        THEN /\ rets' = Append(rets, 1)
             /\ UNCHANGED <<cnode, ctile, reqs, host, urls>>
        ELSE /\ rets' = Append(rets, 0)
             /\ ctile'.isLoading
             /\ reqs' = Append(reqs, NewRequest)
             /\ ctile'.defer = Len(reqs) + 1
             /\ UNCHANGED <<host, urls>> ]_vars

\* A call that started a synthesis was followed by a call that returned 1
\* while the deferreds of the first were pending.
C21_Witness ==
  /\ isI3S
  /\ Len(rets) >= 2
  /\ rets[1] = 0
  /\ rets[2] = 1
  /\ ctile.isLoading
  /\ reqs[1].deferRTP = "pending"
  /\ reqs[1].deferReady = "pending"

--------------------------------------------------------------------------
\* The scheduling of the content continuations: a continuation whose
\* promise has settled runs, and the host engine settles the promises of a
\* request it was given.  Failures of loads, of the worker and of the host
\* are not forced to happen.
FairContent ==
  /\ WF_vars(\E r \in 1..Len(reqs) : DataLoaded(r))
  /\ WF_vars(\E r \in 1..Len(reqs) : \E accepted \in BOOLEAN : ScheduleTask(r, accepted))
  /\ WF_vars(\E r \in 1..Len(reqs) : DecodeDone(r))
  /\ WF_vars(\E h \in 1..Len(host) : HostReadyToProcess(h))
  /\ WF_vars(\E h \in 1..Len(host) : HostReady(h))

\* The content requests of one tile, every enabled continuation being run.
SpecContentFair == InitSpecContent /\ [][NextContent]_vars /\ FairContent

\* The content-ready deferred of request r was resolved only after the
\* locator of r was made, and at most once.
NotifiedInOrder(r) ==
  /\ reqs[r].readyCalls <= 1
  /\ reqs[r].readyCalls = 1 => (reqs[r].url # 0 /\ reqs[r].deferReady = "resolved")
  /\ reqs[r].deferReady = "resolved" => reqs[r].readyCalls = 1

\* C22 as claimed: for each started content request of an I3S tile, once
\* the synthesized locator exists the content-ready notification eventually
\* fires, exactly once and with the loading flag cleared; it never fires
\* before the locator exists and never twice.
C22_LocatorLeadsToNotification ==
  /\ [](\A r \in 1..Len(reqs) : NotifiedInOrder(r))
  /\ \A r \in 1..MaxRequests :
        (isI3S /\ r <= Len(reqs) /\ reqs[r].url # 0)
          ~> (/\ r <= Len(reqs)
              /\ reqs[r].readyCalls = 1
              /\ (r = Len(reqs) => ~ctile.isLoading))

--------------------------------------------------------------------------
\* C23: when the node declares lodThreshold and the layer's metric type is
\* neither maxScreenThresholdSQ nor maxScreenThreshold, a definition is still
\* made for a node with a bounding volume, its geometricError is 1600000
\* (metersPerPixel 100000), and the lodSelection list changes nothing.
C23_InvalidLayerMetricDefaults ==
  (/\ tdef # NoDefinition
   /\ tdata.obb.defined \/ tdata.mbs.defined
   /\ tdata.lodThreshold # 0
   /\ tdata.layerMetricType \notin {"maxScreenThresholdSQ", "maxScreenThreshold"}) =>
    /\ tdef.defined
    /\ ~tdef.geometricError.root
    /\ tdef.geometricError.den # 0
    /\ tdef.geometricError.num = 1600000 * tdef.geometricError.den
    /\ tdef = Create3DTileDefinition(
                [tdata EXCEPT !.lodSelection = [defined |-> FALSE, entries |-> <<>>]])

\* A definition was made for a node with lodThreshold under a layer of
\* another metric type, whose lodSelection has a maxScreenThreshold entry.
C23_Witness ==
  /\ tdef.defined
  /\ tdata.lodThreshold # 0
  /\ tdata.layerMetricType = "density"
  /\ tdata.lodSelection.defined
  /\ \E i \in 1..Len(tdata.lodSelection.entries) :
        tdata.lodSelection.entries[i].metricType = "maxScreenThreshold"

--------------------------------------------------------------------------
\* C30: when the load() of a child rejects, the promise of the parent's
\* _loadChildren is rejected, no child tile is appended to the children of
\* the parent's tile (not even the tiles of children whose load resolved),
\* every _loadChildren call on the parent returned that same promise, and no
\* child was constructed or loaded again.
C30_ChildrenAllOrNothing ==
  \A p \in 1..Len(promises) :
    LET n == promises[p].node
        waits == promises[p].waits
    IN (\E i \in 1..Len(waits) : loadP[waits[i]].state = "rejected") =>
         /\ promises[p].state = "rejected"
         /\ tiles[nodes[n].tile].children = <<>>
         /\ \A j \in 1..Len(returned[n]) : returned[n][j] = p
         /\ nodes[n].children = waits
         /\ \A i \in 1..Len(waits) : fetches[waits[i]].issued = 1

\* One child's load resolved and made its tile, the other's rejected, and
\* _loadChildren was called again afterwards.
C30_Witness ==
  \E p \in 1..Len(promises) :
    LET n == promises[p].node
        waits == promises[p].waits
    IN /\ Len(waits) = 2
       /\ loadP[waits[1]].state = "resolved"
       /\ nodes[waits[1]].tile # 0
       /\ loadP[waits[2]].state = "rejected"
       /\ promises[p].state = "rejected"
       /\ returned[n] = <<p, p>>

--------------------------------------------------------------------------
\* The scheduleTask calls made for request r: the accepted and the refused.
ScheduleCalls(r) == reqs[r].dispatched + (IF reqs[r].refused THEN 1 ELSE 0)

\* C29: a synthesis whose loads resolved with no geometry payload calls
\* scheduleTask never and completes with the locator of the binarized
\* placeholder; with at least one geometry payload exactly one decode
\* request is made and handed to the worker pool once, for the first payload.
C29_OneDecodeForFirstGeometry ==
  \A r \in 1..Len(reqs) :
    /\ ScheduleCalls(r) <= 1
    /\ (reqs[r].phase # "data" /\ reqs[r].reason # "E404") =>
         IF cnode.geometryData = 0
         THEN /\ reqs[r].task = 0
              /\ ScheduleCalls(r) = 0
              /\ reqs[r].phase = "resolved"
              /\ ~reqs[r].assembled
              /\ reqs[r].url # 0
         ELSE /\ reqs[r].task = 1
              /\ reqs[r].phase # "taskWait" => ScheduleCalls(r) = 1
              /\ reqs[r].phase = "resolved" => (reqs[r].dispatched = 1 /\ reqs[r].assembled)

\* A synthesis over two geometry payloads completed after one decode.
C29_Witness ==
  /\ cnode.geometryData = 2
  /\ Len(reqs) = 1
  /\ reqs[1].phase = "resolved"
  /\ reqs[1].dispatched = 1
  /\ reqs[1].task = 1

--------------------------------------------------------------------------
\* C25 as claimed: for a sampled point whose base column is in 0..width-1
\* and whose base row is in 0..height-1, the next column is at most width-1
\* and the next row at most height-1, the four addresses read lie inside the
\* buffer, the two reads of a row lie in the same row and the two reads of a
\* column in the same column.
C25_NextIndicesClamped ==
  LET xi == (gpoint.x - gtile.west) \div CellSize
      yi == (gpoint.y - gtile.south) \div CellSize
      w == gtile.width
  IN (gout.made /\ xi \in 0..(gtile.width - 1) /\ yi \in 0..(gtile.height - 1)) =>
       /\ NextIndex(xi, gtile.width) <= gtile.width - 1
       /\ NextIndex(yi, gtile.height) <= gtile.height - 1
       /\ \A k \in 1..4 : gout.reads[k] >= 0 /\ gout.reads[k] < Len(gtile.buffer)
       /\ gout.reads[2] \div w = gout.reads[1] \div w
       /\ gout.reads[4] \div w = gout.reads[3] \div w
       /\ gout.reads[3] % w = gout.reads[1] % w
       /\ gout.reads[4] % w = gout.reads[2] % w

--------------------------------------------------------------------------
\* C26: for a node whose metadata declares neither an oriented box nor a
\* bounding sphere the synthesis returns before it assigns the node's cached
\* transforms, which stay unset; the node has no tile, and no tile of the
\* host engine was constructed for it.
C26_NoBoundingVolumeNoTile ==
  \A n \in NodeIds :
    (nodes[n].data.defined /\ nodes[n].data.bv = "none") =>
      /\ nodes[n].transforms = "unset"
      /\ nodes[n].tile = 0
      /\ \A t \in 1..Len(tiles) : tiles[t].i3sNode # n

\* The load() of a child without bounding data has run processData.
C26_Witness ==
  \E n \in NodeIds :
    /\ ~nodes[n].isRoot
    /\ nodes[n].data.defined
    /\ nodes[n].data.bv = "none"
    /\ loadP[n].state = "rejected"
    /\ nodes[nodes[n].parent].transforms = "set"

--------------------------------------------------------------------------
\* The tiles of the geoid list whose native extent strictly contains the
\* projected center of node n, by their place in the list.
ContainingTiles(n) ==
  LET c == CenterOf(pnodes[n].data)
  IN { i \in 1..Len(glist.tiles) :
         LET p == Project(glist.tiles[i], c[1], c[2])
             e == NativeExtent(glist.tiles[i])
         IN p.x > e.west /\ p.x < e.east /\ p.y > e.south /\ p.y < e.north }

\* C24: the reference height of a definition is the declared height plus
\* the sample of the first tile of the geoid list that strictly contains the
\* projected position, and of no later tile; a tile on whose boundary the
\* position lies does not count, and without a containing tile or without a
\* geoid list the height is the declared one.
C24_FirstContainingTileOnly ==
  \A n \in 1..Len(pnodes) :
    pnodes[n].definition.defined =>
      LET c == CenterOf(pnodes[n].data)
          declared == HeightUnit * c[3]
          height == pnodes[n].definition.height
      IN /\ ~height.nan
         /\ IF ~glist.defined \/ ContainingTiles(n) = {}
            THEN height.h4 = declared
            ELSE LET first == CHOOSE i \in ContainingTiles(n) :
                                \A j \in ContainingTiles(n) : i <= j
                     tile == glist.tiles[first]
                     p == Project(tile, c[1], c[2])
                 IN height.h4 = declared + sampleGeoid(p.x, p.y, tile).value4

\* A definition was made for a position that the second tile of the list
\* contains and on the boundary of the first, and for one that two tiles
\* with different samples contain.
C24_Witness ==
  /\ Len(glist.tiles) = 2
  /\ pnodes[1].definition.defined
  /\ pnodes[2].definition.defined
  /\ ContainingTiles(1) = {2}
  /\ CenterOf(pnodes[1].data)[1] = NativeExtent(glist.tiles[1]).west
  /\ ContainingTiles(2) = {1, 2}
  /\ LET c == CenterOf(pnodes[2].data)
     IN sampleGeoid(c[1], c[2], glist.tiles[1]).value4
          # sampleGeoid(c[1], c[2], glist.tiles[2]).value4

--------------------------------------------------------------------------
\* C28: the transform of a node's definition is the node's global transform
\* when its parent holds no global transform (the root, whose parent is the
\* layer), and otherwise the global transform times the parent's inverse
\* global transform, so that the local transform accumulated with the
\* parent's global transform gives the node's global transform, both for the
\* matrices as cached and for the arrays of the definitions.
C28_LocalTransformRelativeToParent ==
  \A n \in 1..Len(pnodes) :
    pnodes[n].definition.defined =>
      LET global == pnodes[n].globalTransform
          parent == PlaceParent(n)
          local == TransformArray(pnodes[n].definition.transform)
      IN /\ Matrix4Multiply(global, pnodes[n].inverseGlobalTransform) = Matrix4Identity
         /\ IF parent.globalTransform = <<>>
            THEN pnodes[n].parent = 0 /\ local = global
            ELSE /\ pnodes[n].parent # 0
                 /\ local = Matrix4Multiply(global, parent.inverseGlobalTransform)
                 /\ Matrix4Multiply(local, parent.globalTransform) = global
                 /\ Matrix4Multiply(TransformArray(parent.globalTransform),
                                    pnodes[n].definition.transform)
                      = TransformArray(global)

\* The definition of a child was made whose rotation and whose parent's
\* rotation do not commute.
C28_Witness ==
  /\ pnodes[1].definition.defined
  /\ pnodes[2].definition.defined
  /\ pnodes[1].data.obb.defined
  /\ pnodes[2].data.obb.defined
  /\ pnodes[1].data.obb.quaternion = "qZ"
  /\ pnodes[2].data.obb.quaternion = "qX"
  /\ Matrix4Multiply(pnodes[2].globalTransform, pnodes[1].inverseGlobalTransform)
       # Matrix4Multiply(pnodes[1].inverseGlobalTransform, pnodes[2].globalTransform)
  /\ TransformArray(pnodes[2].definition.transform) # pnodes[2].globalTransform

--------------------------------------------------------------------------
\* The decode-local origin a payload has when it is taken from node g: the
\* center of g's oriented box if it has one, else of its sphere, as
\* cartographic and as Cartesian position, and the axis flip times g's cached
\* inverse rotation.
OriginTakenFrom(task, g) ==
  LET c == CenterOf(pnodes[g].data)
  IN /\ ~task.threw
     /\ task.cartographicCenter = c
     /\ task.cartesianCenter = CartographicToCartesian(c[1], c[2], HeightUnit * c[3])
     /\ task.parentRotation =
          Matrix3Multiply(AxisFlipRotation, pnodes[g].inverseRotationMatrix)

\* C27 as claimed: the decode request of a node that has a parent node takes
\* its origin and its rotation from that parent in the tree.
C27_OriginIsTreeParent ==
  \A n \in 1..Len(pnodes) :
    (ptasks[n].made /\ pnodes[n].parent # 0) =>
      OriginTakenFrom(ptasks[n], pnodes[n].parent)

\* C27 amended: the decode request of a node takes its origin and its
\* rotation from the node that owns the geometry, which is the node itself,
\* whatever the bounding data and the rotation of its parent in the tree; the
\* height is the declared one, without geoid offset.
C27_OriginIsOwningNode ==
  \A n \in 1..Len(pnodes) :
    ptasks[n].made => OriginTakenFrom(ptasks[n], n)

\* The decode request of a child was built whose center and rotation differ
\* from its parent's, under a geoid list that offsets the child's height.
C27_Witness ==
  /\ ptasks[2].made
  /\ CenterOf(pnodes[2].data) # CenterOf(pnodes[1].data)
  /\ pnodes[2].inverseRotationMatrix # pnodes[1].inverseRotationMatrix
  /\ pnodes[2].definition.height.h4 # HeightUnit * CenterOf(pnodes[2].data)[3]

--------------------------------------------------------------------------
\* C31: on a tile whose tileset is not an I3S tileset every requestContent
\* call is one call of the host engine's requestContent, not hooked, whose
\* result it returns; the loading flag is never set, no deferred is made, no
\* synthesis starts and the node is left as constructed.
C31_DelegatesWhenNotI3S ==
  ~isI3S =>
    /\ Len(host) = Len(rets)
    /\ \A i \in 1..Len(rets) : ~host[i].hooked /\ rets[i] = host[i].result
    /\ ~ctile.isLoading
    /\ ctile.defer = 0
    /\ ctile.contentResource = 0
    /\ reqs = <<>>
    /\ urls = 0
    /\ cnode = [geometryData |-> 0, featureData |-> 0, glbURL |-> 0]

\* The host returned 1 to one delegated call and 0 to another, and settled
\* the promises of a request.
C31_Witness ==
  /\ ~isI3S
  /\ payloads.nGeom > 0
  /\ Len(rets) >= 2
  /\ rets[1] = 1
  /\ rets[2] = 0
  /\ host[2].ready = "resolved"

====
